---- MODULE Spec2Model ----
(***************************************************************************)
(* Model of c/ch11/solns/both1d.c: the 1D advection-diffusion residual     *)
(* (FormFunctionLocal) and analytic Jacobian (FormJacobianLocal) on a      *)
(* DMDA split over ranks, driven by main() and the SNES solver.            *)
(*                                                                         *)
(* PetscReal values are modelled as exact rationals <<n, d>> (d > 0, in    *)
(* lowest terms); <<1, 0>> is the IEEE +infinity that 2.0/(mx-1) yields    *)
(* for mx = 1.  Rounding is not modelled.                                  *)
(***************************************************************************)
EXTENDS Integers, Sequences, FiniteSets, TLC

(***************************************************************************)
(* Bounds of the exploration.                                              *)
(***************************************************************************)
\* largest global point count -da_grid_x explored
MaxN == 4
\* largest number of MPI ranks explored
MaxRanks == 2
\* number of trial vectors the solver supplies after the initial iterate
MaxIter == 1
\* entries of the trial vectors the solver supplies
UVals == {0, 2}
\* largest numerator and denominator of the arguments theta given to the
\* limiter functions
MaxTheta == 4
\* heat.c: largest -da_grid_x and -da_grid_y
HeatMaxX == 3
HeatMaxY == 3
\* minimal.c: largest -da_grid_x and -da_grid_y
MSMaxN == 4
\* obstacle.c: largest -da_grid_x and -da_grid_y
ObsMaxX == 3
ObsMaxY == 2

(***************************************************************************)
(* Exact rational arithmetic standing for PetscReal.                       *)
(***************************************************************************)
Abs(n) == IF n < 0 THEN -n ELSE n

RECURSIVE GCD(_, _)
GCD(a, b) == IF b = 0 THEN a ELSE GCD(b, a % b)

\* the rational n/d in lowest terms; d = 0 stands for +infinity
R(n, d) ==
    IF d = 0 THEN <<1, 0>>
    ELSE LET s == IF d < 0 THEN -1 ELSE 1
             g == GCD(Abs(n), Abs(d))
         IN  <<(s * n) \div g, (s * d) \div g>>

RInt(n) == <<n, 1>>
RInf == <<1, 0>>
IsInf(a) == a[2] = 0

RAdd(a, b) == IF IsInf(a) \/ IsInf(b) THEN RInf
              ELSE R(a[1] * b[2] + b[1] * a[2], a[2] * b[2])
RNeg(a) == <<-a[1], a[2]>>
RSub(a, b) == RAdd(a, RNeg(b))
RMul(a, b) == IF IsInf(a) \/ IsInf(b) THEN RInf
              ELSE R(a[1] * b[1], a[2] * b[2])
\* a / b; a finite value over infinity is 0, a positive value over 0 is +inf
RDiv(a, b) == IF IsInf(b) THEN RInt(0)
              ELSE IF IsInf(a) THEN RInf
              ELSE R(a[1] * b[2], a[2] * b[1])
RGe(a, b) == a[1] * b[2] >= b[1] * a[2]
RLt(a, b) == a[1] * b[2] < b[1] * a[2]
\* PetscAbsReal
PetscAbsReal(a) == <<Abs(a[1]), a[2]>>

(***************************************************************************)
(* LimiterType, LimiterTypes[] and limiterptr[] (both1d.c:14-27).          *)
(***************************************************************************)
NONE == 0
CENTERED == 1
VANLEER == 2
LimiterType == {NONE, CENTERED, VANLEER}

\* static PetscReal centered(PetscReal theta)
centered(theta) == R(1, 2)

\* vanleer without the factor 0.5 of line 24
vanleer_NoHalf(theta) ==
    LET abstheta == PetscAbsReal(theta)
    IN  RDiv(RAdd(theta, abstheta), RAdd(RInt(1), abstheta))

\* static PetscReal vanleer(PetscReal theta)
vanleer(theta) ==
    LET abstheta == PetscAbsReal(theta)
    IN  RDiv(RMul(R(1, 2), RAdd(theta, abstheta)), RAdd(RInt(1), abstheta))

\* static void* limiterptr[] = {NULL, &centered, &vanleer}, indexed from 0
limiterptr(l) == <<"NULL", "centered", "vanleer">>[l + 1]

\* (*fcn)(theta) for a non-NULL limiter function pointer
CallLimiter(fcn, theta) ==
    IF fcn = "centered" THEN centered(theta) ELSE vanleer(theta)

(***************************************************************************)
(* State.                                                                  *)
(***************************************************************************)
VARIABLES
    pc,              \* position of main(): "start", "parsed", "epsok",
                     \*   "limset", "solve", "done", "error"
    errcode,         \* error code main() returns (0: none)
    argv,            \* command line: each option is <<>> (absent) or <<value>>
    wind,            \* the value wind_a() returns
    user,            \* AdCtx user: eps, limiter_fcn, jac_limiter_fcn
    limiter,         \* LimiterType limiter
    jac_limiter,     \* LimiterType jac_limiter
    snesfdset,       \* PetscBool snesfdset
    snesfdcolorset,  \* PetscBool snesfdcolorset
    mx,              \* info.mx, the global point count (0: no grid yet)
    ranges,          \* per rank <<xs, xm>>, the owned range [xs, xs+xm)
    au,              \* the trial vector the solver supplies (global view)
    aF,              \* the residual vector
    P,               \* the Jacobian matrix, [row, col] -> value
    iter,            \* trial vectors supplied after the initial iterate
    fdone,           \* per rank: FormFunctionLocal has run on the current au
    jdone,           \* per rank: FormJacobianLocal has run on the current au
    flog,            \* per rank: trace of the last FormFunctionLocal call
    jlog,            \* per rank: Mat calls made by FormJacobianLocal so far
    limcalls,        \* the last calls of centered() / vanleer() made directly:
                     \*   <<function, theta, value returned>>, newest last
    \* c/ch5/heat.c
    ht_pc,           \* position of main(): "start", "parsed", "solve", "done"
    ht_user,         \* HeatCtx user: D0
    ht_info,         \* the grid: mx, my
    ht_ranges,       \* per rank <<xs, xm>>; every rank owns all of y
    ht_au,           \* the state vector the time stepper supplies, [<<j, i>> -> value]
    ht_aG,           \* the right-hand side G, [<<j, i>> -> value]
    ht_P,            \* the Jacobian matrix, [<<row node, column node>> -> value]
    ht_iter,         \* state vectors supplied after the initial condition
    ht_fdone,        \* per rank: FormRHSFunctionLocal has run on the current ht_au
    ht_jdone,        \* per rank: FormRHSJacobianLocal has run on the current ht_au
    ht_jlog,         \* per rank: the MatSetValuesStencil calls of the last
                     \*   FormRHSJacobianLocal call: <<row, columns, values>>
    \* c/ch7/minimal.c
    ms_pc,           \* position of main(): "start", "parsed", "checked",
                     \*   "created", "solve", "done", "error"
    ms_errcode,      \* the code main() returned through SETERRQ, 0 if none
    ms_problem,      \* ProblemType problem
    ms_exact_init,   \* PetscBool exact_init
    ms_mctx,         \* MinimalCtx mctx: q, tent_H, catenoid_c
    ms_user,         \* PoissonCtx user: g_bdry
    ms_da,           \* the DMDA: created, mx, my
    ms_snes,         \* the SNES has been created
    ms_ranges,       \* per rank <<xs, xm, ys, ym>>
    ms_init,         \* the call that formed the initial iterate, "none" before
    ms_u,            \* the current iterate, [<<j, i>> -> value]
    ms_FF,           \* the residual, [<<j, i>> -> value]
    ms_iter,         \* iterates supplied by the solver after the initial one
    ms_fdone,        \* per rank: FormFunctionLocal has run on the current ms_u
    ms_flog,         \* per rank: the array indices read and the neighbour
                     \*   values used by the last FormFunctionLocal call
    \* c/ch12/obstacle.c, GetActiveSet
    obs_phase,       \* "start" before the call, "called" from the call on
    obs_info,        \* DMDALocalInfo: mx, my
    obs_ranges,      \* per rank <<first global index, local size n>>
    obs_u,           \* Vec u, [global index -> value]
    obs_Xl,          \* Vec Xl, [global index -> value]
    obs_F,           \* the residual Vec F of the SNES, [global index -> value]
    obs_args,        \* the arguments act and actarea: TRUE for a non-NULL pointer
    obs_rpc,         \* per rank: "enter", "counted", "reduced", "returned"
    obs_lact,        \* per rank: lact
    obs_gact,        \* per rank: gact
    obs_out          \* per rank: the caller's variables *act and *actarea

\* the state of both1d.c
b1vars == <<pc, errcode, argv, wind, user, limiter, jac_limiter, snesfdset,
            snesfdcolorset, mx, ranges, au, aF, P, iter, fdone, jdone, flog, jlog>>

\* the state of heat.c
htvars == <<ht_pc, ht_user, ht_info, ht_ranges, ht_au, ht_aG, ht_P, ht_iter,
            ht_fdone, ht_jdone, ht_jlog>>

\* the state of minimal.c
msvars == <<ms_pc, ms_errcode, ms_problem, ms_exact_init, ms_mctx, ms_user, ms_da,
            ms_snes, ms_ranges, ms_init, ms_u, ms_FF, ms_iter, ms_fdone, ms_flog>>

\* the state of obstacle.c
obsvars == <<obs_phase, obs_info, obs_ranges, obs_u, obs_Xl, obs_F, obs_args,
             obs_rpc, obs_lact, obs_gact, obs_out>>

vars == <<b1vars, limcalls, htvars, msvars, obsvars>>

\* a value no code path reads before assigning it
Uninit == "uninit"

\* values of -b1_eps tried on the command line
EpsGiven == {R(-1, 1), R(0, 1), R(1, 1)}

\* the command lines explored: every combination of the three both1d
\* options, and the two finite-difference options of the solver with the
\* default eps
Argvs ==
    {a \in [eps : {<<>>} \cup {<<e>> : e \in EpsGiven},
            limiter : {<<>>} \cup {<<l>> : l \in LimiterType},
            jac_limiter : {<<>>} \cup {<<l>> : l \in LimiterType},
            snes_fd : BOOLEAN,
            snes_fd_color : BOOLEAN] :
        (a.snes_fd \/ a.snes_fd_color) => a.eps = <<>>}

\* PetscOptionsReal / PetscOptionsEnum: the option's value when present,
\* otherwise the current value
PetscOptionsGet(opt, current) == IF opt = <<>> THEN current ELSE opt[1]

\* static PetscReal wind_a(PetscReal x)
wind_a(x) == RInt(wind)

(***************************************************************************)
(* FormFunctionLocal (both1d.c:150-223).  The evaluation is carried out on *)
(* a record st: aF the residual array, reads the indices of au read,       *)
(* writes the indices of aF assigned or updated, fluxops the sequence of   *)
(* <<cell, face, sign>> flux updates, thetas the denominators of theta.    *)
(***************************************************************************)
\* au[i] on the local (ghosted) array; the value outside the grid is not
\* defined by the code and is never requested by it
AuAt(u, i) == IF i \in DOMAIN u THEN u[i] ELSE RInt(0)

hxOf(info) == RDiv(RInt(2), RInt(info.mx - 1))
scdiagOf(info, usr) == RAdd(RDiv(RMul(RInt(2), usr.eps), hxOf(info)), RInt(1))

\* CellStep with "aF[i] +=" in place of "aF[i] =" on lines 163, 165, 170
CellStep_Accumulate(info, u, usr, st, i) ==
    LET eps == usr.eps
        hx == hxOf(info)
        hx2 == RMul(hx, hx)
        scdiag == scdiagOf(info, usr)
    IN  IF i = 0 THEN
            [st EXCEPT !.aF = [@ EXCEPT ![i] = RAdd(@, RMul(scdiag, RSub(AuAt(u, i), RInt(1))))],
                       !.reads = @ \cup {i},
                       !.writes = @ \cup {i}]
        ELSE IF i = info.mx - 1 THEN
            [st EXCEPT !.aF = [@ EXCEPT ![i] = RAdd(@, RMul(scdiag, RSub(AuAt(u, i), RInt(0))))],
                       !.reads = @ \cup {i},
                       !.writes = @ \cup {i}]
        ELSE
            LET uW == IF i = 1 THEN RInt(1) ELSE AuAt(u, i - 1)
                uE == IF i = info.mx - 2 THEN RInt(0) ELSE AuAt(u, i + 1)
                uxx == RDiv(RAdd(RSub(uW, RMul(RInt(2), AuAt(u, i))), uE), hx2)
                rd == {i} \cup (IF i = 1 THEN {} ELSE {i - 1})
                          \cup (IF i = info.mx - 2 THEN {} ELSE {i + 1})
            IN  [st EXCEPT !.aF = [@ EXCEPT ![i] = RAdd(@, RMul(RMul(RNeg(eps), uxx), hx))],
                           !.reads = @ \cup rd,
                           !.writes = @ \cup {i}]

\* CellStep with "- eps * uxx" on line 170, the factor hx left out
CellStep_NoScale(info, u, usr, st, i) ==
    LET eps == usr.eps
        hx == hxOf(info)
        hx2 == RMul(hx, hx)
        scdiag == scdiagOf(info, usr)
    IN  IF i = 0 THEN
            [st EXCEPT !.aF = [@ EXCEPT ![i] = RMul(scdiag, RSub(AuAt(u, i), RInt(1)))],
                       !.reads = @ \cup {i},
                       !.writes = @ \cup {i}]
        ELSE IF i = info.mx - 1 THEN
            [st EXCEPT !.aF = [@ EXCEPT ![i] = RMul(scdiag, RSub(AuAt(u, i), RInt(0)))],
                       !.reads = @ \cup {i},
                       !.writes = @ \cup {i}]
        ELSE
            LET uW == IF i = 1 THEN RInt(1) ELSE AuAt(u, i - 1)
                uE == IF i = info.mx - 2 THEN RInt(0) ELSE AuAt(u, i + 1)
                uxx == RDiv(RAdd(RSub(uW, RMul(RInt(2), AuAt(u, i))), uE), hx2)
                rd == {i} \cup (IF i = 1 THEN {} ELSE {i - 1})
                          \cup (IF i = info.mx - 2 THEN {} ELSE {i + 1})
            IN  [st EXCEPT !.aF = [@ EXCEPT ![i] = RMul(RNeg(eps), uxx)],
                           !.reads = @ \cup rd,
                           !.writes = @ \cup {i}]

\* body of the cell loop, lines 162-171
CellStep(info, u, usr, st, i) ==
    LET eps == usr.eps
        hx == hxOf(info)
        hx2 == RMul(hx, hx)
        scdiag == scdiagOf(info, usr)
    IN  IF i = 0 THEN
            [st EXCEPT !.aF = [@ EXCEPT ![i] = RMul(scdiag, RSub(AuAt(u, i), RInt(1)))],
                       !.reads = @ \cup {i},
                       !.writes = @ \cup {i}]
        ELSE IF i = info.mx - 1 THEN
            [st EXCEPT !.aF = [@ EXCEPT ![i] = RMul(scdiag, RSub(AuAt(u, i), RInt(0)))],
                       !.reads = @ \cup {i},
                       !.writes = @ \cup {i}]
        ELSE
            LET uW == IF i = 1 THEN RInt(1) ELSE AuAt(u, i - 1)
                uE == IF i = info.mx - 2 THEN RInt(0) ELSE AuAt(u, i + 1)
                uxx == RDiv(RAdd(RSub(uW, RMul(RInt(2), AuAt(u, i))), uE), hx2)
                rd == {i} \cup (IF i = 1 THEN {} ELSE {i - 1})
                          \cup (IF i = info.mx - 2 THEN {} ELSE {i + 1})
            IN  [st EXCEPT !.aF = [@ EXCEPT ![i] = RMul(RMul(RNeg(eps), uxx), hx)],
                           !.reads = @ \cup rd,
                           !.writes = @ \cup {i}]

\* for (i=info->xs; i<info->xs+info->xm; i++), line 161
RECURSIVE CellLoop(_, _, _, _, _)
CellLoop(info, u, usr, st, i) ==
    IF i < info.xs + info.xm
    THEN CellLoop(info, u, usr, CellStep(info, u, usr, st, i), i + 1)
    ELSE st

\* FaceFlux without the test "if (u_dn != u_up)" of line 206
FaceFlux_NoEqualTest(info, u, usr, i) ==
    LET hx == hxOf(info)
        halfx == RDiv(hx, RInt(2))
        x == RAdd(RInt(-1), RMul(RInt(i), hx))
        a == wind_a(RAdd(x, halfx))
        apos == RGe(a, RInt(0))
        upB == IF apos THEN i = 0 ELSE i + 1 = info.mx - 1
        u_up == IF apos
                THEN (IF i = 0 THEN RInt(1) ELSE AuAt(u, i))
                ELSE (IF i + 1 = info.mx - 1 THEN RInt(0) ELSE AuAt(u, i + 1))
        rdUp == IF upB THEN {} ELSE IF apos THEN {i} ELSE {i + 1}
        flux0 == RMul(a, u_up)
    IN  IF usr.limiter_fcn # "NULL" THEN
            LET u_dn == IF apos
                        THEN (IF i + 1 < info.mx - 1 THEN AuAt(u, i + 1) ELSE RInt(0))
                        ELSE AuAt(u, i)
                rdDn == IF apos
                        THEN (IF i + 1 < info.mx - 1 THEN {i + 1} ELSE {})
                        ELSE {i}
                u_far == IF apos
                         THEN (IF i - 1 > 0 THEN AuAt(u, i - 1) ELSE RInt(1))
                         ELSE (IF i + 2 < info.mx - 1 THEN AuAt(u, i + 2) ELSE RInt(0))
                rdFar == IF apos
                         THEN (IF i - 1 > 0 THEN {i - 1} ELSE {})
                         ELSE (IF i + 2 < info.mx - 1 THEN {i + 2} ELSE {})
                den == RSub(u_dn, u_up)
                theta == RDiv(RSub(u_up, u_far), den)
            IN  [flux |-> RAdd(flux0, RMul(RMul(a, CallLimiter(usr.limiter_fcn, theta)), den)),
                 reads |-> rdUp \cup rdDn \cup rdFar,
                 thetas |-> {den}]
        ELSE [flux |-> flux0, reads |-> rdUp, thetas |-> {}]

\* the flux at the E face of cell i, lines 184-214: its value, the indices
\* of au it reads and the denominator of theta when theta is computed
FaceFlux(info, u, usr, i) ==
    LET hx == hxOf(info)
        halfx == RDiv(hx, RInt(2))
        x == RAdd(RInt(-1), RMul(RInt(i), hx))
        a == wind_a(RAdd(x, halfx))
        apos == RGe(a, RInt(0))
        upB == IF apos THEN i = 0 ELSE i + 1 = info.mx - 1
        u_up == IF apos
                THEN (IF i = 0 THEN RInt(1) ELSE AuAt(u, i))
                ELSE (IF i + 1 = info.mx - 1 THEN RInt(0) ELSE AuAt(u, i + 1))
        rdUp == IF upB THEN {} ELSE IF apos THEN {i} ELSE {i + 1}
        flux0 == RMul(a, u_up)
    IN  IF usr.limiter_fcn # "NULL" THEN
            LET u_dn == IF apos
                        THEN (IF i + 1 < info.mx - 1 THEN AuAt(u, i + 1) ELSE RInt(0))
                        ELSE AuAt(u, i)
                rdDn == IF apos
                        THEN (IF i + 1 < info.mx - 1 THEN {i + 1} ELSE {})
                        ELSE {i}
            IN  IF u_dn # u_up THEN
                    LET u_far == IF apos
                                 THEN (IF i - 1 > 0 THEN AuAt(u, i - 1) ELSE RInt(1))
                                 ELSE (IF i + 2 < info.mx - 1 THEN AuAt(u, i + 2) ELSE RInt(0))
                        rdFar == IF apos
                                 THEN (IF i - 1 > 0 THEN {i - 1} ELSE {})
                                 ELSE (IF i + 2 < info.mx - 1 THEN {i + 2} ELSE {})
                        den == RSub(u_dn, u_up)
                        theta == RDiv(RSub(u_up, u_far), den)
                    IN  [flux |-> RAdd(flux0, RMul(RMul(a, CallLimiter(usr.limiter_fcn, theta)), den)),
                         reads |-> rdUp \cup rdDn \cup rdFar,
                         thetas |-> {den}]
                ELSE [flux |-> flux0, reads |-> rdUp \cup rdDn, thetas |-> {}]
        ELSE [flux |-> flux0, reads |-> rdUp, thetas |-> {}]

\* FaceStep with "aF[i+1] += flux" in place of "aF[i+1] -= flux" on line 220
FaceStep_FluxInAdded(info, u, usr, st, i) ==
    IF i < 0 \/ i = info.mx - 1 THEN st
    ELSE
        LET f == FaceFlux(info, u, usr, i)
            outE == i > 0 /\ i >= info.xs
            intoW == i + 1 < info.mx - 1 /\ i + 1 < info.xs + info.xm
            aF1 == IF outE THEN [st.aF EXCEPT ![i] = RAdd(@, f.flux)] ELSE st.aF
            aF2 == IF intoW THEN [aF1 EXCEPT ![i + 1] = RAdd(@, f.flux)] ELSE aF1
        IN  [aF |-> aF2,
             reads |-> st.reads \cup f.reads,
             writes |-> st.writes \cup (IF outE THEN {i} ELSE {})
                                  \cup (IF intoW THEN {i + 1} ELSE {}),
             fluxops |-> st.fluxops
                           \o (IF outE THEN << <<i, i, 1>> >> ELSE <<>>)
                           \o (IF intoW THEN << <<i + 1, i, -1>> >> ELSE <<>>),
             thetas |-> st.thetas \cup f.thetas]

\* FaceStep without the ownership tests "i >= info->xs" of line 217 and
\* "i+1 < info->xs + info->xm" of line 219
FaceStep_NoOwnerTest(info, u, usr, st, i) ==
    IF i < 0 \/ i = info.mx - 1 THEN st
    ELSE
        LET f == FaceFlux(info, u, usr, i)
            outE == i > 0
            intoW == i + 1 < info.mx - 1
            aF1 == IF outE THEN [st.aF EXCEPT ![i] = RAdd(@, f.flux)] ELSE st.aF
            aF2 == IF intoW THEN [aF1 EXCEPT ![i + 1] = RSub(@, f.flux)] ELSE aF1
        IN  [aF |-> aF2,
             reads |-> st.reads \cup f.reads,
             writes |-> st.writes \cup (IF outE THEN {i} ELSE {})
                                  \cup (IF intoW THEN {i + 1} ELSE {}),
             fluxops |-> st.fluxops
                           \o (IF outE THEN << <<i, i, 1>> >> ELSE <<>>)
                           \o (IF intoW THEN << <<i + 1, i, -1>> >> ELSE <<>>),
             thetas |-> st.thetas \cup f.thetas]

\* FaceStep without the i > 0 test of line 217
FaceStep_NoBoundaryTest(info, u, usr, st, i) ==
    IF i < 0 \/ i = info.mx - 1 THEN st
    ELSE
        LET f == FaceFlux(info, u, usr, i)
            outE == i >= info.xs
            intoW == i + 1 < info.mx - 1 /\ i + 1 < info.xs + info.xm
            aF1 == IF outE THEN [st.aF EXCEPT ![i] = RAdd(@, f.flux)] ELSE st.aF
            aF2 == IF intoW THEN [aF1 EXCEPT ![i + 1] = RSub(@, f.flux)] ELSE aF1
        IN  [aF |-> aF2,
             reads |-> st.reads \cup f.reads,
             writes |-> st.writes \cup (IF outE THEN {i} ELSE {})
                                  \cup (IF intoW THEN {i + 1} ELSE {}),
             fluxops |-> st.fluxops
                           \o (IF outE THEN << <<i, i, 1>> >> ELSE <<>>)
                           \o (IF intoW THEN << <<i + 1, i, -1>> >> ELSE <<>>),
             thetas |-> st.thetas \cup f.thetas]

\* FaceStep without the i < 0 test of line 180
FaceStep_NoSkipLeft(info, u, usr, st, i) ==
    IF i = info.mx - 1 THEN st
    ELSE
        LET f == FaceFlux(info, u, usr, i)
            outE == i > 0 /\ i >= info.xs
            intoW == i + 1 < info.mx - 1 /\ i + 1 < info.xs + info.xm
            aF1 == IF outE THEN [st.aF EXCEPT ![i] = RAdd(@, f.flux)] ELSE st.aF
            aF2 == IF intoW THEN [aF1 EXCEPT ![i + 1] = RSub(@, f.flux)] ELSE aF1
        IN  [aF |-> aF2,
             reads |-> st.reads \cup f.reads,
             writes |-> st.writes \cup (IF outE THEN {i} ELSE {})
                                  \cup (IF intoW THEN {i + 1} ELSE {}),
             fluxops |-> st.fluxops
                           \o (IF outE THEN << <<i, i, 1>> >> ELSE <<>>)
                           \o (IF intoW THEN << <<i + 1, i, -1>> >> ELSE <<>>),
             thetas |-> st.thetas \cup f.thetas]

\* body of the face loop, lines 180-220
FaceStep(info, u, usr, st, i) ==
    IF i < 0 \/ i = info.mx - 1 THEN st
    ELSE
        LET f == FaceFlux(info, u, usr, i)
            outE == i > 0 /\ i >= info.xs
            intoW == i + 1 < info.mx - 1 /\ i + 1 < info.xs + info.xm
            aF1 == IF outE THEN [st.aF EXCEPT ![i] = RAdd(@, f.flux)] ELSE st.aF
            aF2 == IF intoW THEN [aF1 EXCEPT ![i + 1] = RSub(@, f.flux)] ELSE aF1
        IN  [aF |-> aF2,
             reads |-> st.reads \cup f.reads,
             writes |-> st.writes \cup (IF outE THEN {i} ELSE {})
                                  \cup (IF intoW THEN {i + 1} ELSE {}),
             fluxops |-> st.fluxops
                           \o (IF outE THEN << <<i, i, 1>> >> ELSE <<>>)
                           \o (IF intoW THEN << <<i + 1, i, -1>> >> ELSE <<>>),
             thetas |-> st.thetas \cup f.thetas]

\* for (i=info->xs-1; i<info->xs+info->xm; i++), line 177
RECURSIVE FaceLoop(_, _, _, _, _)
FaceLoop(info, u, usr, st, i) ==
    IF i < info.xs + info.xm
    THEN FaceLoop(info, u, usr, FaceStep(info, u, usr, st, i), i + 1)
    ELSE st

\* FormFunctionLocal with the face loop started at xs instead of xs-1
FormFunctionLocal_FacesFromXs(info, u, F, usr) ==
    LET st0 == [aF |-> F, reads |-> {}, writes |-> {}, fluxops |-> <<>>, thetas |-> {}]
        st1 == CellLoop(info, u, usr, st0, info.xs)
    IN  FaceLoop(info, u, usr, st1, info.xs)

\* FormFunctionLocal with the face loop started at xs-2
FormFunctionLocal_FacesFromXsMinus2(info, u, F, usr) ==
    LET st0 == [aF |-> F, reads |-> {}, writes |-> {}, fluxops |-> <<>>, thetas |-> {}]
        st1 == CellLoop(info, u, usr, st0, info.xs)
    IN  FaceLoop(info, u, usr, st1, info.xs - 2)

\* the whole call: the cell loop, then the face loop
FormFunctionLocal(info, u, F, usr) ==
    LET st0 == [aF |-> F, reads |-> {}, writes |-> {}, fluxops |-> <<>>, thetas |-> {}]
        st1 == CellLoop(info, u, usr, st0, info.xs)
    IN  FaceLoop(info, u, usr, st1, info.xs - 1)

(***************************************************************************)
(* FormJacobianLocal (both1d.c:225-304).  P is [<<row, col>> -> value]; the *)
(* Mat calls made are appended to log.                                     *)
(***************************************************************************)
\* MatZeroEntries left out: the matrix keeps its contents
MatZeroEntries_Skip(info, M) == M

\* MatZeroEntries(P) on a rank: zeroes the rows the rank owns
MatZeroEntries(info, M) ==
    [rc \in DOMAIN M |->
        IF rc[1] >= info.xs /\ rc[1] < info.xs + info.xm THEN RInt(0) ELSE M[rc]]

\* MatSetValues with INSERT_VALUES: v[k] replaces P[i][col[k]]
RECURSIVE MatSetValues_Insert(_, _, _, _, _)
MatSetValues_Insert(M, i, col, v, k) ==
    IF k > Len(col) THEN M
    ELSE MatSetValues_Insert(
            IF <<i, col[k]>> \in DOMAIN M
            THEN [M EXCEPT ![<<i, col[k]>>] = v[k]] ELSE M,
            i, col, v, k + 1)

\* MatSetValues(P,1,&i,n,col,v,ADD_VALUES): adds v[k] to P[i][col[k]]
RECURSIVE MatSetValues(_, _, _, _, _)
MatSetValues(M, i, col, v, k) ==
    IF k > Len(col) THEN M
    ELSE MatSetValues(
            IF <<i, col[k]>> \in DOMAIN M
            THEN [M EXCEPT ![<<i, col[k]>>] = RAdd(@, v[k])] ELSE M,
            i, col, v, k + 1)

\* JacRow with the centered correction of the E face put in columns i+2, i+1
\* (lines 274-275 shifted by one)
JacRow_ShiftedCorrection(info, usr, st, i) ==
    LET eps == usr.eps
        hx == hxOf(info)
        halfx == RDiv(hx, RInt(2))
        scdiag == scdiagOf(info, usr)
    IN  IF i = 0 \/ i = info.mx - 1 THEN
            [P |-> MatSetValues(st.P, i, <<i>>, <<scdiag>>, 1),
             log |-> Append(st.log, <<"MatSetValues", i, <<i>>, <<scdiag>>>>)]
        ELSE
            LET colD == <<i, i - 1, i + 1>>
                vD == <<RDiv(RMul(RInt(2), eps), hx),
                        IF i - 1 > 0 THEN RDiv(RNeg(eps), hx) ELSE RInt(0),
                        IF i + 1 < info.mx - 1 THEN RDiv(RNeg(eps), hx) ELSE RInt(0)>>
                P1 == MatSetValues(st.P, i, colD, vD, 1)
                x == RAdd(RInt(-1), RMul(RInt(i), hx))
                aE == wind_a(RAdd(x, halfx))
                aW == wind_a(RSub(x, halfx))
                ePos == RGe(aE, RInt(0))
                wPos == RGe(aW, RInt(0))
                colA == <<IF ePos THEN i ELSE i + 1,
                          IF wPos THEN i - 1 ELSE i>>
                vA == <<IF ePos THEN aE
                        ELSE (IF i + 1 < info.mx - 1 THEN aE ELSE RInt(0)),
                        IF wPos THEN (IF i - 1 > 0 THEN RNeg(aW) ELSE RInt(0))
                        ELSE RNeg(aW)>>
                P2 == MatSetValues(P1, i, colA, vA, 1)
                log2 == st.log \o << <<"MatSetValues", i, colD, vD>>,
                                     <<"MatSetValues", i, colA, vA>> >>
            IN  IF usr.jac_limiter_fcn = "centered" THEN
                    LET colE == <<i + 2, i + 1>>
                        aE2 == RDiv(aE, RInt(2))
                        vE == IF ePos
                              THEN <<IF i + 1 < info.mx - 1 THEN aE2 ELSE RInt(0),
                                     RNeg(aE2)>>
                              ELSE <<IF i + 1 < info.mx - 1 THEN RNeg(aE2) ELSE RInt(0),
                                     aE2>>
                        P3 == MatSetValues(P2, i, colE, vE, 1)
                        colW == <<i, i - 1>>
                        aW2 == RDiv(aW, RInt(2))
                        vW == IF wPos
                              THEN <<RNeg(aW2),
                                     IF i - 1 > 0 THEN aW2 ELSE RInt(0)>>
                              ELSE <<aW2,
                                     IF i - 1 > 0 THEN RNeg(aW2) ELSE RInt(0)>>
                        P4 == MatSetValues(P3, i, colW, vW, 1)
                    IN  [P |-> P4,
                         log |-> log2 \o << <<"MatSetValues", i, colE, vE>>,
                                            <<"MatSetValues", i, colW, vW>> >>]
                ELSE [P |-> P2, log |-> log2]

\* JacRow without the boundary tests "(i-1 > 0) ?" and "(i+1 < info->mx-1) ?"
\* of the advective part, lines 263 and 267
JacRow_NoColumnTest(info, usr, st, i) ==
    LET eps == usr.eps
        hx == hxOf(info)
        halfx == RDiv(hx, RInt(2))
        scdiag == scdiagOf(info, usr)
    IN  IF i = 0 \/ i = info.mx - 1 THEN
            [P |-> MatSetValues(st.P, i, <<i>>, <<scdiag>>, 1),
             log |-> Append(st.log, <<"MatSetValues", i, <<i>>, <<scdiag>>>>)]
        ELSE
            LET colD == <<i, i - 1, i + 1>>
                vD == <<RDiv(RMul(RInt(2), eps), hx),
                        IF i - 1 > 0 THEN RDiv(RNeg(eps), hx) ELSE RInt(0),
                        IF i + 1 < info.mx - 1 THEN RDiv(RNeg(eps), hx) ELSE RInt(0)>>
                P1 == MatSetValues(st.P, i, colD, vD, 1)
                x == RAdd(RInt(-1), RMul(RInt(i), hx))
                aE == wind_a(RAdd(x, halfx))
                aW == wind_a(RSub(x, halfx))
                ePos == RGe(aE, RInt(0))
                wPos == RGe(aW, RInt(0))
                colA == <<IF ePos THEN i ELSE i + 1,
                          IF wPos THEN i - 1 ELSE i>>
                vA == <<aE, RNeg(aW)>>
                P2 == MatSetValues(P1, i, colA, vA, 1)
                log2 == st.log \o << <<"MatSetValues", i, colD, vD>>,
                                     <<"MatSetValues", i, colA, vA>> >>
            IN  IF usr.jac_limiter_fcn = "centered" THEN
                    LET colE == <<i + 1, i>>
                        aE2 == RDiv(aE, RInt(2))
                        vE == IF ePos
                              THEN <<IF i + 1 < info.mx - 1 THEN aE2 ELSE RInt(0),
                                     RNeg(aE2)>>
                              ELSE <<IF i + 1 < info.mx - 1 THEN RNeg(aE2) ELSE RInt(0),
                                     aE2>>
                        P3 == MatSetValues(P2, i, colE, vE, 1)
                        colW == <<i, i - 1>>
                        aW2 == RDiv(aW, RInt(2))
                        vW == IF wPos
                              THEN <<RNeg(aW2),
                                     IF i - 1 > 0 THEN aW2 ELSE RInt(0)>>
                              ELSE <<aW2,
                                     IF i - 1 > 0 THEN RNeg(aW2) ELSE RInt(0)>>
                        P4 == MatSetValues(P3, i, colW, vW, 1)
                    IN  [P |-> P4,
                         log |-> log2 \o << <<"MatSetValues", i, colE, vE>>,
                                            <<"MatSetValues", i, colW, vW>> >>]
                ELSE [P |-> P2, log |-> log2]

\* body of the row loop, lines 242-295
JacRow(info, usr, st, i) ==
    LET eps == usr.eps
        hx == hxOf(info)
        halfx == RDiv(hx, RInt(2))
        scdiag == scdiagOf(info, usr)
    IN  IF i = 0 \/ i = info.mx - 1 THEN
            [P |-> MatSetValues(st.P, i, <<i>>, <<scdiag>>, 1),
             log |-> Append(st.log, <<"MatSetValues", i, <<i>>, <<scdiag>>>>)]
        ELSE
            LET \* diffusive part, lines 247-253
                colD == <<i, i - 1, i + 1>>
                vD == <<RDiv(RMul(RInt(2), eps), hx),
                        IF i - 1 > 0 THEN RDiv(RNeg(eps), hx) ELSE RInt(0),
                        IF i + 1 < info.mx - 1 THEN RDiv(RNeg(eps), hx) ELSE RInt(0)>>
                P1 == MatSetValues(st.P, i, colD, vD, 1)
                \* advective part, lines 255-272
                x == RAdd(RInt(-1), RMul(RInt(i), hx))
                aE == wind_a(RAdd(x, halfx))
                aW == wind_a(RSub(x, halfx))
                ePos == RGe(aE, RInt(0))
                wPos == RGe(aW, RInt(0))
                colA == <<IF ePos THEN i ELSE i + 1,
                          IF wPos THEN i - 1 ELSE i>>
                vA == <<IF ePos THEN aE
                        ELSE (IF i + 1 < info.mx - 1 THEN aE ELSE RInt(0)),
                        IF wPos THEN (IF i - 1 > 0 THEN RNeg(aW) ELSE RInt(0))
                        ELSE RNeg(aW)>>
                P2 == MatSetValues(P1, i, colA, vA, 1)
                log2 == st.log \o << <<"MatSetValues", i, colD, vD>>,
                                     <<"MatSetValues", i, colA, vA>> >>
            IN  IF usr.jac_limiter_fcn = "centered" THEN
                    LET \* lines 274-283
                        colE == <<i + 1, i>>
                        aE2 == RDiv(aE, RInt(2))
                        vE == IF ePos
                              THEN <<IF i + 1 < info.mx - 1 THEN aE2 ELSE RInt(0),
                                     RNeg(aE2)>>
                              ELSE <<IF i + 1 < info.mx - 1 THEN RNeg(aE2) ELSE RInt(0),
                                     aE2>>
                        P3 == MatSetValues(P2, i, colE, vE, 1)
                        \* lines 284-293
                        colW == <<i, i - 1>>
                        aW2 == RDiv(aW, RInt(2))
                        vW == IF wPos
                              THEN <<RNeg(aW2),
                                     IF i - 1 > 0 THEN aW2 ELSE RInt(0)>>
                              ELSE <<aW2,
                                     IF i - 1 > 0 THEN RNeg(aW2) ELSE RInt(0)>>
                        P4 == MatSetValues(P3, i, colW, vW, 1)
                    IN  [P |-> P4,
                         log |-> log2 \o << <<"MatSetValues", i, colE, vE>>,
                                            <<"MatSetValues", i, colW, vW>> >>]
                ELSE [P |-> P2, log |-> log2]

\* for (i=info->xs; i<info->xs+info->xm; i++), line 241
RECURSIVE JacLoop(_, _, _, _)
JacLoop(info, usr, st, i) ==
    IF i < info.xs + info.xm
    THEN JacLoop(info, usr, JacRow(info, usr, st, i), i + 1)
    ELSE st

\* FormJacobianLocal returning before the assembly on a rank that owns no
\* interior row
FormJacobianLocal_AssembleIfRows(info, u, M, log, usr) ==
    IF usr.jac_limiter_fcn = "vanleer" THEN
        [err |-> 1, P |-> M, log |-> log]
    ELSE
        LET st0 == [P |-> MatZeroEntries(info, M),
                    log |-> Append(log, <<"MatZeroEntries">>)]
            st1 == JacLoop(info, usr, st0, info.xs)
            rows == {i \in info.xs..(info.xs + info.xm - 1) : 0 < i /\ i < info.mx - 1}
        IN  [err |-> 0, P |-> st1.P,
             log |-> IF rows = {} THEN st1.log
                     ELSE st1.log \o << <<"MatAssemblyBegin">>, <<"MatAssemblyEnd">> >>]

\* FormJacobianLocal with the van Leer test made after MatZeroEntries
FormJacobianLocal_LateTest(info, u, M, log, usr) ==
    LET st0 == [P |-> MatZeroEntries(info, M),
                log |-> Append(log, <<"MatZeroEntries">>)]
        st1 == JacLoop(info, usr, st0, info.xs)
    IN  IF usr.jac_limiter_fcn = "vanleer" THEN
            [err |-> 1, P |-> st0.P, log |-> st0.log]
        ELSE
            [err |-> 0, P |-> st1.P,
             log |-> st1.log \o << <<"MatAssemblyBegin">>, <<"MatAssemblyEnd">> >>]

\* the whole call; err is the PetscErrorCode returned
FormJacobianLocal(info, u, M, log, usr) ==
    IF usr.jac_limiter_fcn = "vanleer" THEN
        [err |-> 1, P |-> M, log |-> log]
    ELSE
        LET st0 == [P |-> MatZeroEntries(info, M),
                    log |-> Append(log, <<"MatZeroEntries">>)]
            st1 == JacLoop(info, usr, st0, info.xs)
        IN  [err |-> 0, P |-> st1.P,
             log |-> st1.log \o << <<"MatAssemblyBegin">>, <<"MatAssemblyEnd">> >>]

(***************************************************************************)
(* main() (both1d.c:47-130) and the calls SNESSolve makes.                 *)
(***************************************************************************)
\* indeterminate values of locals main() has not assigned yet
UninitReal == <<0, 0>>
UninitEnum == NONE - 1

Ranks == 1..Len(ranges)
InfoOf(r) == [mx |-> mx, xs |-> ranges[r][1], xm |-> ranges[r][2]]
SnesFd == snesfdset \/ snesfdcolorset

\* the elements of a set of integers in increasing order
RECURSIVE SortedSeq(_)
SortedSeq(S) ==
    IF S = {} THEN <<>>
    ELSE LET m == CHOOSE x \in S : \A y \in S : x <= y
         IN  <<m>> \o SortedSeq(S \ {m})

\* the DMDA's ownership ranges for the cut points in C: rank k owns
\* [start_k, start_{k+1})
RangesOf(n, C) ==
    LET starts == <<0>> \o SortedSeq(C) \o <<n>>
    IN  [k \in 1..(Len(starts) - 1) |-> <<starts[k], starts[k + 1] - starts[k]>>]

\* every split of [0, n) into at most MaxRanks contiguous non-empty ranges
Partitions(n) ==
    {RangesOf(n, C) : C \in {D \in SUBSET (1..(n - 1)) : Cardinality(D) < MaxRanks}}

ZeroVec(n) == [i \in 0..(n - 1) |-> RInt(0)]
ZeroMat(n) == [rc \in (0..(n - 1)) \X (0..(n - 1)) |-> RInt(0)]
EmptyFLog == [reads |-> {}, writes |-> {}, fluxops |-> <<>>, thetas |-> {}]

\* heat.c before main() has run
HeatInit ==
    /\ ht_pc = "start"
    /\ ht_user = [D0 |-> UninitReal]
    /\ ht_info = [mx |-> 0, my |-> 0]
    /\ ht_ranges = <<>>
    /\ ht_au = <<>>
    /\ ht_aG = <<>>
    /\ ht_P = <<>>
    /\ ht_iter = 0
    /\ ht_fdone = <<>>
    /\ ht_jdone = <<>>
    /\ ht_jlog = <<>>

\* ProblemType and ProblemTypes[] (minimal.c:50-52)
TENT == 0
CATENOID == 1
ProblemType == {TENT, CATENOID}

\* minimal.c before main() has run its first statement: lines 60-69
MSInit ==
    /\ ms_pc = "start"
    /\ ms_errcode = 0
    /\ ms_problem = CATENOID
    /\ ms_exact_init = FALSE
    /\ ms_mctx = [q |-> UninitReal, tent_H |-> UninitReal, catenoid_c |-> UninitReal]
    /\ ms_user = [g_bdry |-> "uninitialized"]
    /\ ms_da = [created |-> FALSE, mx |-> 0, my |-> 0]
    /\ ms_snes = FALSE
    /\ ms_ranges = <<>>
    /\ ms_init = "none"
    /\ ms_u = <<>>
    /\ ms_FF = <<>>
    /\ ms_iter = 0
    /\ ms_fdone = <<>>
    /\ ms_flog = <<>>

\* a caller's variable GetActiveSet has not written
Unwritten == <<"unwritten">>

\* obstacle.c before GetActiveSet is called
ObsInit ==
    /\ obs_phase = "start"
    /\ obs_info = [mx |-> 0, my |-> 0]
    /\ obs_ranges = <<>>
    /\ obs_u = <<>>
    /\ obs_Xl = <<>>
    /\ obs_F = <<>>
    /\ obs_args = [act |-> FALSE, actarea |-> FALSE]
    /\ obs_rpc = <<>>
    /\ obs_lact = <<>>
    /\ obs_gact = <<>>
    /\ obs_out = <<>>

InitCommon ==
    /\ pc = "start"
    /\ errcode = 0
    /\ argv \in Argvs
    /\ user = [eps |-> UninitReal, limiter_fcn |-> Uninit, jac_limiter_fcn |-> Uninit]
    /\ limiter = NONE
    /\ jac_limiter = UninitEnum
    /\ snesfdset = FALSE
    /\ snesfdcolorset = FALSE
    /\ mx = 0
    /\ ranges = <<>>
    /\ au = <<>>
    /\ aF = <<>>
    /\ P = <<>>
    /\ iter = 0
    /\ fdone = <<>>
    /\ jdone = <<>>
    /\ flog = <<>>
    /\ jlog = <<>>
    /\ limcalls = <<>>
    /\ HeatInit
    /\ MSInit
    /\ ObsInit

\* the program as written: wind_a() returns 1.0
Init == InitCommon /\ wind = 1

\* lines 60-72: defaults and option processing
ParseOptions ==
    /\ pc = "start"
    /\ user' = [user EXCEPT !.eps = PetscOptionsGet(argv.eps, R(1, 100))]
    /\ limiter' = PetscOptionsGet(argv.limiter, limiter)
    /\ jac_limiter' = PetscOptionsGet(argv.jac_limiter, limiter')
    /\ pc' = "parsed"
    /\ UNCHANGED <<limcalls, htvars, msvars, obsvars, errcode, argv, wind, snesfdset, snesfdcolorset, mx, ranges,
                   au, aF, P, iter, fdone, jdone, flog, jlog>>

\* CheckEps testing eps < 0.0 instead of eps <= 0.0
CheckEps_Strict ==
    /\ pc = "parsed"
    /\ IF RLt(user.eps, RInt(0))
       THEN pc' = "error" /\ errcode' = 2
       ELSE pc' = "epsok" /\ errcode' = errcode
    /\ UNCHANGED <<limcalls, htvars, msvars, obsvars, argv, wind, user, limiter, jac_limiter, snesfdset,
                   snesfdcolorset, mx, ranges, au, aF, P, iter, fdone, jdone,
                   flog, jlog>>

\* lines 74-76: if (user.eps <= 0.0) SETERRQ1(PETSC_COMM_SELF,2,...)
CheckEps ==
    /\ pc = "parsed"
    /\ IF ~RLt(RInt(0), user.eps)
       THEN pc' = "error" /\ errcode' = 2
       ELSE pc' = "epsok" /\ errcode' = errcode
    /\ UNCHANGED <<limcalls, htvars, msvars, obsvars, argv, wind, user, limiter, jac_limiter, snesfdset,
                   snesfdcolorset, mx, ranges, au, aF, P, iter, fdone, jdone,
                   flog, jlog>>

\* SetLimiters testing snesfdset && snesfdcolorset instead of ||
SetLimiters_BothFlags ==
    /\ pc = "epsok"
    /\ snesfdset' = argv.snes_fd
    /\ snesfdcolorset' = argv.snes_fd_color
    /\ IF snesfdset' /\ snesfdcolorset'
       THEN /\ user' = [user EXCEPT !.limiter_fcn = limiterptr(limiter),
                                    !.jac_limiter_fcn = "NULL"]
            /\ jac_limiter' = 4
       ELSE /\ user' = [user EXCEPT !.limiter_fcn = limiterptr(limiter),
                                    !.jac_limiter_fcn = limiterptr(jac_limiter)]
            /\ jac_limiter' = jac_limiter
    /\ pc' = "limset"
    /\ UNCHANGED <<limcalls, htvars, msvars, obsvars, errcode, argv, wind, limiter, mx, ranges, au, aF, P, iter,
                   fdone, jdone, flog, jlog>>

\* lines 77-84: the two limiter function pointers
SetLimiters ==
    /\ pc = "epsok"
    /\ snesfdset' = argv.snes_fd
    /\ snesfdcolorset' = argv.snes_fd_color
    /\ IF snesfdset' \/ snesfdcolorset'
       THEN /\ user' = [user EXCEPT !.limiter_fcn = limiterptr(limiter),
                                    !.jac_limiter_fcn = "NULL"]
            /\ jac_limiter' = 4
       ELSE /\ user' = [user EXCEPT !.limiter_fcn = limiterptr(limiter),
                                    !.jac_limiter_fcn = limiterptr(jac_limiter)]
            /\ jac_limiter' = jac_limiter
    /\ pc' = "limset"
    /\ UNCHANGED <<limcalls, htvars, msvars, obsvars, errcode, argv, wind, limiter, mx, ranges, au, aF, P, iter,
                   fdone, jdone, flog, jlog>>

\* lines 86-105: the DMDA, the solver and the zero initial iterate
CreateGrid ==
    /\ pc = "limset"
    /\ \E n \in 1..MaxN : \E part \in Partitions(n) :
          /\ mx' = n
          /\ ranges' = part
          /\ au' = ZeroVec(n)
          /\ aF' = ZeroVec(n)
          /\ P' = ZeroMat(n)
          /\ fdone' = [r \in DOMAIN part |-> FALSE]
          /\ jdone' = [r \in DOMAIN part |-> FALSE]
          /\ flog' = [r \in DOMAIN part |-> EmptyFLog]
          /\ jlog' = [r \in DOMAIN part |-> <<>>]
    /\ pc' = "solve"
    /\ UNCHANGED <<limcalls, htvars, msvars, obsvars, errcode, argv, wind, user, limiter, jac_limiter, snesfdset,
                   snesfdcolorset, iter>>

\* SNESSolve (line 106): rank r evaluates the residual at the current au
SNESComputeFunction(r) ==
    /\ pc = "solve"
    /\ ~fdone[r]
    /\ \E res \in {FormFunctionLocal(InfoOf(r), au, aF, user)} :
           /\ aF' = res.aF
           /\ flog' = [flog EXCEPT ![r] = [reads |-> res.reads,
                                           writes |-> res.writes,
                                           fluxops |-> res.fluxops,
                                           thetas |-> res.thetas]]
    /\ fdone' = [fdone EXCEPT ![r] = TRUE]
    /\ UNCHANGED <<limcalls, htvars, msvars, obsvars, pc, errcode, argv, wind, user, limiter, jac_limiter,
                   snesfdset, snesfdcolorset, mx, ranges, au, P, iter, jdone, jlog>>

\* SNESSolve: rank r assembles the Jacobian at the current au; with -snes_fd
\* or -snes_fd_color the solver differences the residual instead
SNESComputeJacobian(r) ==
    /\ pc = "solve"
    /\ ~SnesFd
    /\ fdone[r]
    /\ ~jdone[r]
    /\ \E res \in {FormJacobianLocal(InfoOf(r), au, P, <<>>, user)} :
           /\ P' = res.P
           /\ jlog' = [jlog EXCEPT ![r] = res.log]
           /\ IF res.err # 0
              THEN pc' = "error" /\ errcode' = res.err /\ jdone' = jdone
              ELSE pc' = pc /\ errcode' = errcode
                   /\ jdone' = [jdone EXCEPT ![r] = TRUE]
    /\ UNCHANGED <<limcalls, htvars, msvars, obsvars, argv, wind, user, limiter, jac_limiter, snesfdset,
                   snesfdcolorset, mx, ranges, au, aF, iter, fdone, flog>>

\* every rank has finished the evaluations of the current iterate
EvalsComplete ==
    /\ \A r \in Ranks : fdone[r]
    /\ (\A r \in Ranks : jdone[r]) \/ (\A r \in Ranks : ~jdone[r])

\* SNESSolve: the solver moves to a new trial vector
SNESNewIterate ==
    /\ pc = "solve"
    /\ EvalsComplete
    /\ iter < MaxIter
    /\ au' \in [0..(mx - 1) -> {RInt(v) : v \in UVals}]
    /\ iter' = iter + 1
    /\ fdone' = [r \in Ranks |-> FALSE]
    /\ jdone' = [r \in Ranks |-> FALSE]
    /\ UNCHANGED <<limcalls, htvars, msvars, obsvars, pc, errcode, argv, wind, user, limiter, jac_limiter,
                   snesfdset, snesfdcolorset, mx, ranges, aF, P, flog, jlog>>

\* lines 107-129: SNESSolve returns and the error norms are reported
Report ==
    /\ pc = "solve"
    /\ EvalsComplete
    /\ pc' = "done"
    /\ UNCHANGED <<limcalls, htvars, msvars, obsvars, errcode, argv, wind, user, limiter, jac_limiter, snesfdset,
                   snesfdcolorset, mx, ranges, au, aF, P, iter, fdone, jdone,
                   flog, jlog>>

Next ==
    \/ ParseOptions
    \/ CheckEps
    \/ SetLimiters
    \/ CreateGrid
    \/ \E r \in Ranks : SNESComputeFunction(r)
    \/ \E r \in Ranks : SNESComputeJacobian(r)
    \/ SNESNewIterate
    \/ Report

Spec == Init /\ [][Next]_vars

\* the same program with wind_a() returning either sign
InitWind == InitCommon /\ wind \in {-1, 1}
SpecWind == InitWind /\ [][Next]_vars

(***************************************************************************)
(* The limiter functions called on their own (both1d.c:18-25): theta is    *)
(* drawn from ThetaVals and the last two calls are kept.                    *)
(***************************************************************************)
ThetaVals == {R(n, d) : n \in (-MaxTheta)..MaxTheta, d \in 1..MaxTheta}

\* the calls kept after one more call c
KeepLast(calls, c) ==
    IF Len(calls) < 2 THEN Append(calls, c) ELSE <<calls[2], c>>

\* centered(theta)
CallCentered(theta) ==
    /\ limcalls' = KeepLast(limcalls, <<"centered", theta, centered(theta)>>)
    /\ UNCHANGED <<b1vars, htvars, msvars, obsvars>>

\* vanleer(theta)
CallVanleer(theta) ==
    /\ limcalls' = KeepLast(limcalls, <<"vanleer", theta, vanleer(theta)>>)
    /\ UNCHANGED <<b1vars, htvars, msvars, obsvars>>

InitLimiter ==
    /\ Init
    /\ argv = [eps |-> <<>>, limiter |-> <<>>, jac_limiter |-> <<>>,
               snes_fd |-> FALSE, snes_fd_color |-> FALSE]

NextLimiter ==
    \/ \E theta \in ThetaVals : CallCentered(theta)
    \/ \E theta \in ThetaVals : CallVanleer(theta)

SpecLimiter == InitLimiter /\ [][NextLimiter]_vars

(***************************************************************************)
(* c/ch5/heat.c.  A PetscReal that involves f_source() or gamma_neumann()  *)
(* is kept as  lin + sum of coef * fn(args) : the two functions are        *)
(* transcendental and stay symbols.                                        *)
(***************************************************************************)
HReal(r) == [lin |-> r, sym |-> <<>>]
HAdd(a, b) == [lin |-> RAdd(a.lin, b.lin), sym |-> a.sym \o b.sym]
HScale(c, a) ==
    [lin |-> RMul(c, a.lin),
     sym |-> [k \in DOMAIN a.sym |->
                 [coef |-> RMul(c, a.sym[k].coef), fn |-> a.sym[k].fn,
                  args |-> a.sym[k].args]]]

\* static PetscReal f_source(PetscReal x, PetscReal y)
f_source(x, y) ==
    [lin |-> RInt(0),
     sym |-> <<[coef |-> RInt(1), fn |-> "f_source", args |-> <<x, y>>]>>]

\* static PetscReal gamma_neumann(PetscReal y)
gamma_neumann(y) ==
    [lin |-> RInt(0),
     sym |-> <<[coef |-> RInt(1), fn |-> "gamma_neumann", args |-> <<y>>]>>]

\* PetscErrorCode Spacings(DMDALocalInfo *info, PetscReal *hx, PetscReal *hy)
Spacings(info) ==
    [hx |-> RDiv(RInt(1), RInt(info.mx - 1)), hy |-> RDiv(RInt(1), RInt(info.my))]

HeatRanks == 1..Len(ht_ranges)
HeatInfoOf(r) ==
    [mx |-> ht_info.mx, my |-> ht_info.my,
     xs |-> ht_ranges[r][1], xm |-> ht_ranges[r][2],
     ys |-> ht_ranges[r][3], ym |-> ht_ranges[r][4]]
HeatNodes(m, n) == (0..(n - 1)) \X (0..(m - 1))
HeatOwned(info) ==
    (info.ys..(info.ys + info.ym - 1)) \X (info.xs..(info.xs + info.xm - 1))

\* the grid node behind the index (j, i) of a local array or a MatStencil:
\* the y direction is DM_BOUNDARY_PERIODIC with stencil width 1, so the ghost
\* rows j = -1 and j = my are the rows my-1 and 0
StencilNode(info, j, i) == <<(j + info.my) % info.my, i>>

\* au[j][i] of the local array the DMDA hands to the callbacks
LocalAt(info, u, j, i) == u[StencilNode(info, j, i)]

\* the body of the loops of FormRHSFunctionLocal: the value stored in aG[j][i]
RHSAt(info, u, ctx, j, i) ==
    LET hx == Spacings(info).hx
        hy == Spacings(info).hy
        y == RMul(hy, RInt(j))
        x == RMul(RInt(i), hx)
        ul == IF i = 0
              THEN HAdd(HReal(LocalAt(info, u, j, i + 1)),
                        HScale(RMul(RInt(2), hx), gamma_neumann(y)))
              ELSE HReal(LocalAt(info, u, j, i - 1))
        ur == IF i = info.mx - 1 THEN HReal(LocalAt(info, u, j, i - 1))
              ELSE HReal(LocalAt(info, u, j, i + 1))
        m2u == HReal(RMul(RInt(-2), LocalAt(info, u, j, i)))
        uxx == HScale(RDiv(RInt(1), RMul(hx, hx)), HAdd(HAdd(ul, m2u), ur))
        uyy == HScale(RDiv(RInt(1), RMul(hy, hy)),
                      HAdd(HAdd(HReal(LocalAt(info, u, j - 1, i)), m2u),
                           HReal(LocalAt(info, u, j + 1, i))))
    IN  HAdd(HScale(ctx.D0, HAdd(uxx, uyy)), f_source(x, y))

\* PetscErrorCode FormRHSFunctionLocal(DMDALocalInfo *info, PetscReal t,
\*     PetscReal **au, PetscReal **aG, HeatCtx *user):
\* every owned aG[j][i] is assigned, from u alone
FormRHSFunctionLocal(info, u, G, ctx) ==
    [n \in DOMAIN G |->
        IF n \in HeatOwned(info) THEN RHSAt(info, u, ctx, n[1], n[2]) ELSE G[n]]

\* MatSetValuesStencil(P,1,&row,ncols,col,v,INSERT_VALUES): the entries are
\* stored one after the other, a later one replacing an earlier one that
\* names the same matrix entry
RECURSIVE MatSetValuesStencil(_, _, _, _, _, _, _)
MatSetValuesStencil(info, M, row, ncols, col, v, k) ==
    IF k > ncols THEN M
    ELSE MatSetValuesStencil(info,
             [M EXCEPT ![<<StencilNode(info, row[1], row[2]),
                           StencilNode(info, col[k][1], col[k][2])>>] = v[k]],
             row, ncols, col, v, k + 1)

\* the body of the loops of FormRHSJacobianLocal: row, ncols, col[], v[]
StencilRow(info, ctx, j, i) ==
    LET hx == Spacings(info).hx
        hy == Spacings(info).hy
        D == ctx.D0
        ihx2 == RDiv(RInt(1), RMul(hx, hx))
        ihy2 == RDiv(RInt(1), RMul(hy, hy))
        v0 == RMul(RMul(RInt(-2), D), RAdd(ihx2, ihy2))
        dy == RMul(D, ihy2)
        dx == RMul(D, ihx2)
        dx2 == RMul(RMul(RInt(2), D), ihx2)
    IN  IF i = 0
        THEN [row |-> <<j, i>>, ncols |-> 4,
              col |-> << <<j, i>>, <<j - 1, i>>, <<j + 1, i>>, <<j, i + 1>> >>,
              v |-> <<v0, dy, dy, dx2>>]
        ELSE IF i = info.mx - 1
        THEN [row |-> <<j, i>>, ncols |-> 4,
              col |-> << <<j, i>>, <<j - 1, i>>, <<j + 1, i>>, <<j, i - 1>> >>,
              v |-> <<v0, dy, dy, dx2>>]
        ELSE [row |-> <<j, i>>, ncols |-> 5,
              col |-> << <<j, i>>, <<j - 1, i>>, <<j + 1, i>>, <<j, i - 1>>,
                         <<j, i + 1>> >>,
              v |-> <<v0, dy, dy, dx, dx>>]

\* for (j = info->ys; ...) for (i = info->xs; ...) { ...; MatSetValuesStencil }
RECURSIVE StencilLoop(_, _, _, _, _, _)
StencilLoop(info, ctx, M, log, j, i) ==
    IF j >= info.ys + info.ym THEN [P |-> M, log |-> log]
    ELSE IF i >= info.xs + info.xm
    THEN StencilLoop(info, ctx, M, log, j + 1, info.xs)
    ELSE LET s == StencilRow(info, ctx, j, i)
         IN  StencilLoop(info, ctx,
                 MatSetValuesStencil(info, M, s.row, s.ncols, s.col, s.v, 1),
                 Append(log, s), j, i + 1)

\* PetscErrorCode FormRHSJacobianLocal(DMDALocalInfo *info, PetscReal t,
\*     PetscReal **au, Mat J, Mat P, HeatCtx *user), with J == P
FormRHSJacobianLocal(info, M, ctx) ==
    StencilLoop(info, ctx, M, <<>>, info.ys, info.xs)

\* the both1d.c and limiter state heat.c never touches
HeatFrame == UNCHANGED <<b1vars, limcalls, msvars, obsvars>>

\* main(): user.D0 = 1.0 and the option -ht_D0
HeatParseOptions ==
    /\ ht_pc = "start"
    /\ \E d \in {1, 2} : ht_user' = [D0 |-> RInt(d)]
    /\ ht_pc' = "parsed"
    /\ UNCHANGED <<ht_info, ht_ranges, ht_au, ht_aG, ht_P, ht_iter, ht_fdone,
                   ht_jdone, ht_jlog>>
    /\ HeatFrame

\* the splits of an m x n grid among at most MaxRanks ranks, each rank
\* <<xs, xm, ys, ym>>: along x or along y
GridPartitions(m, n) ==
    {[r \in DOMAIN p |-> <<p[r][1], p[r][2], 0, n>>] : p \in Partitions(m)}
    \cup {[r \in DOMAIN p |-> <<0, m, p[r][1], p[r][2]>>] : p \in Partitions(n)}

\* main(): DMDACreate2d .. DMCreateGlobalVector, the solver's matrix, and
\* VecSet(u,0.0)
HeatCreateGrid ==
    /\ ht_pc = "parsed"
    /\ \E m \in 2..HeatMaxX, n \in 1..HeatMaxY :
          /\ ht_info' = [mx |-> m, my |-> n]
          /\ \E p \in GridPartitions(m, n) :
                /\ ht_ranges' = p
                /\ ht_fdone' = [r \in DOMAIN p |-> FALSE]
                /\ ht_jdone' = [r \in DOMAIN p |-> FALSE]
                /\ ht_jlog' = [r \in DOMAIN p |-> <<>>]
          /\ ht_au' = [nd \in HeatNodes(m, n) |-> RInt(0)]
          /\ ht_aG' = [nd \in HeatNodes(m, n) |-> HReal(RInt(0))]
          /\ ht_P' = [e \in HeatNodes(m, n) \X HeatNodes(m, n) |-> RInt(0)]
    /\ ht_pc' = "solve"
    /\ UNCHANGED <<ht_user, ht_iter>>
    /\ HeatFrame

\* TSSolve: rank r evaluates the right-hand side at the current state
TSComputeRHSFunction(r) ==
    /\ ht_pc = "solve"
    /\ ~ht_fdone[r]
    /\ ht_aG' = FormRHSFunctionLocal(HeatInfoOf(r), ht_au, ht_aG, ht_user)
    /\ ht_fdone' = [ht_fdone EXCEPT ![r] = TRUE]
    /\ UNCHANGED <<ht_pc, ht_user, ht_info, ht_ranges, ht_au, ht_P, ht_iter,
                   ht_jdone, ht_jlog>>
    /\ HeatFrame

\* TSSolve: rank r evaluates the Jacobian at the current state
TSComputeRHSJacobian(r) ==
    /\ ht_pc = "solve"
    /\ ~ht_jdone[r]
    /\ \E res \in {FormRHSJacobianLocal(HeatInfoOf(r), ht_P, ht_user)} :
          /\ ht_P' = res.P
          /\ ht_jlog' = [ht_jlog EXCEPT ![r] = res.log]
    /\ ht_jdone' = [ht_jdone EXCEPT ![r] = TRUE]
    /\ UNCHANGED <<ht_pc, ht_user, ht_info, ht_ranges, ht_au, ht_aG, ht_iter,
                   ht_fdone>>
    /\ HeatFrame

HeatEvalsComplete == \A r \in HeatRanks : ht_fdone[r] /\ ht_jdone[r]

\* TSSolve: the time stepper moves to another state vector
TSNewState ==
    /\ ht_pc = "solve"
    /\ HeatEvalsComplete
    /\ ht_iter < MaxIter
    /\ \E u \in [HeatNodes(ht_info.mx, ht_info.my) -> {RInt(0), RInt(1)}] :
          ht_au' = u
    /\ ht_iter' = ht_iter + 1
    /\ ht_fdone' = [r \in HeatRanks |-> FALSE]
    /\ ht_jdone' = [r \in HeatRanks |-> FALSE]
    /\ UNCHANGED <<ht_pc, ht_user, ht_info, ht_ranges, ht_aG, ht_P, ht_jlog>>
    /\ HeatFrame

\* main(): TSSolve returns
HeatFinish ==
    /\ ht_pc = "solve"
    /\ HeatEvalsComplete
    /\ ht_pc' = "done"
    /\ UNCHANGED <<ht_user, ht_info, ht_ranges, ht_au, ht_aG, ht_P, ht_iter,
                   ht_fdone, ht_jdone, ht_jlog>>
    /\ HeatFrame

NextHeat ==
    \/ HeatParseOptions
    \/ HeatCreateGrid
    \/ \E r \in HeatRanks : TSComputeRHSFunction(r)
    \/ \E r \in HeatRanks : TSComputeRHSJacobian(r)
    \/ TSNewState
    \/ HeatFinish

\* heat.c alone: both1d.c is not run
InitHeat == InitLimiter

SpecHeat == InitHeat /\ [][NextHeat]_vars

(***************************************************************************)
(* c/ch7/minimal.c.  A PetscReal is a number <<"num", r>> or an expression *)
(* over the functions that stay symbols: the catenoid boundary values and  *)
(* pow().  Arithmetic on two numbers is carried out, any other operation   *)
(* is kept as written.                                                     *)
(***************************************************************************)
MNum(r) == <<"num", r>>
IsNum(t) == t[1] = "num"
\* an operation on two values: carried out on two numbers, kept otherwise
MFold(op, x, y) ==
    IF IsNum(x) /\ IsNum(y)
    THEN MNum(CASE op = "add" -> RAdd(x[2], y[2])
                [] op = "sub" -> RSub(x[2], y[2])
                [] op = "mul" -> RMul(x[2], y[2])
                [] op = "div" -> RDiv(x[2], y[2]))
    ELSE <<op, x, y>>
\* the operands are evaluated once
MOp(op, a, b) == CHOOSE t \in {MFold(op, x, y) : x \in {a}, y \in {b}} : TRUE
MAdd(a, b) == MOp("add", a, b)
MSub(a, b) == MOp("sub", a, b)
MMul(a, b) == MOp("mul", a, b)
MDiv(a, b) == MOp("div", a, b)

\* static PetscReal g_bdry_tent(PetscReal x, PetscReal y, PetscReal z, void *ctx)
g_bdry_tent(x, y, mctx) ==
    IF RLt(x, R(1, 100000000))
    THEN MNum(RMul(RMul(RInt(2), mctx.tent_H),
                   IF RLt(y, R(1, 2)) THEN y ELSE RSub(RInt(1), y)))
    ELSE MNum(RInt(0))

\* static PetscReal g_bdry_catenoid(...): c cosh(x/c) sin(acos((y/c)/cosh(x/c)))
g_bdry_catenoid(x, y, mctx) == <<"catenoid", mctx.catenoid_c, x, y>>

\* user->g_bdry(x,y,0.0,user)
g_bdry(usr, mctx, x, y) ==
    IF usr.g_bdry = "g_bdry_tent" THEN g_bdry_tent(x, y, mctx)
    ELSE g_bdry_catenoid(x, y, mctx)

\* static PetscReal DD(PetscReal w, PetscReal q)
DD(w, q) == <<"pow", MAdd(MNum(RInt(1)), w), q>>

MSRanks == 1..Len(ms_ranges)
MSInfoOf(r) ==
    [mx |-> ms_da.mx, my |-> ms_da.my,
     xs |-> ms_ranges[r][1], xm |-> ms_ranges[r][2],
     ys |-> ms_ranges[r][3], ym |-> ms_ranges[r][4]]
MSWholeGrid ==
    [mx |-> ms_da.mx, my |-> ms_da.my, xs |-> 0, xm |-> ms_da.mx,
     ys |-> 0, ym |-> ms_da.my]

\* hx and hy of FormExactFromG and FormFunctionLocal; the bounding box is
\* the unit square (line 137)
MSSpacings(info) ==
    [hx |-> RDiv(RSub(RInt(1), RInt(0)), RInt(info.mx - 1)),
     hy |-> RDiv(RSub(RInt(1), RInt(0)), RInt(info.my - 1))]

\* PetscErrorCode FormExactFromG(DMDALocalInfo *info, Vec uexact, PoissonCtx *user)
FormExactFromG(info, uexact, usr, mctx) ==
    [n \in DOMAIN uexact |->
        IF n \in HeatOwned(info)
        THEN g_bdry(usr, mctx, RMul(RInt(n[2]), MSSpacings(info).hx),
                    RMul(RInt(n[1]), MSSpacings(info).hy))
        ELSE uexact[n]]

\* NeighborValues with the condition of line 256 a conjunction
NeighborValues_CornerAnd(info, u, usr, mctx, j, i) ==
    LET hx == MSSpacings(info).hx
        hy == MSSpacings(info).hy
        y == RMul(RInt(j), hy)
        x == RMul(RInt(i), hx)
        xe == RAdd(x, hx)
        xw == RSub(x, hx)
        yn == RAdd(y, hy)
        ys == RSub(y, hy)
        G(a, b) == g_bdry(usr, mctx, a, b)
        eb == i + 1 = info.mx - 1
        wb == i - 1 = 0
        nb == j + 1 = info.my - 1
        sb == j - 1 = 0
    IN  [E |-> IF eb THEN G(xe, y) ELSE u[<<j, i + 1>>],
         W |-> IF wb THEN G(xw, y) ELSE u[<<j, i - 1>>],
         N |-> IF nb THEN G(x, yn) ELSE u[<<j + 1, i>>],
         S |-> IF sb THEN G(x, ys) ELSE u[<<j - 1, i>>],
         NE |-> IF eb \/ nb THEN G(xe, yn) ELSE u[<<j + 1, i + 1>>],
         NW |-> IF wb \/ nb THEN G(xw, yn) ELSE u[<<j + 1, i - 1>>],
         SE |-> IF eb \/ sb THEN G(xe, ys) ELSE u[<<j - 1, i + 1>>],
         SW |-> IF wb /\ sb THEN G(xw, ys) ELSE u[<<j - 1, i - 1>>],
         reads |-> (IF eb THEN {} ELSE {<<j, i + 1>>})
                   \cup (IF wb THEN {} ELSE {<<j, i - 1>>})
                   \cup (IF nb THEN {} ELSE {<<j + 1, i>>})
                   \cup (IF sb THEN {} ELSE {<<j - 1, i>>})
                   \cup (IF eb \/ nb THEN {} ELSE {<<j + 1, i + 1>>})
                   \cup (IF wb \/ nb THEN {} ELSE {<<j + 1, i - 1>>})
                   \cup (IF eb \/ sb THEN {} ELSE {<<j - 1, i + 1>>})
                   \cup (IF wb /\ sb THEN {} ELSE {<<j - 1, i - 1>>})]

\* lines 231-260 of FormFunctionLocal: the eight neighbour values ue, uw, un,
\* us, une, unw, use, usw of the interior node (j, i), and the indices of au
\* read for them
NeighborValues(info, u, usr, mctx, j, i) ==
    LET hx == MSSpacings(info).hx
        hy == MSSpacings(info).hy
        y == RMul(RInt(j), hy)
        x == RMul(RInt(i), hx)
        xe == RAdd(x, hx)
        xw == RSub(x, hx)
        yn == RAdd(y, hy)
        ys == RSub(y, hy)
        G(a, b) == g_bdry(usr, mctx, a, b)
        eb == i + 1 = info.mx - 1
        wb == i - 1 = 0
        nb == j + 1 = info.my - 1
        sb == j - 1 = 0
    IN  [E |-> IF eb THEN G(xe, y) ELSE u[<<j, i + 1>>],
         W |-> IF wb THEN G(xw, y) ELSE u[<<j, i - 1>>],
         N |-> IF nb THEN G(x, yn) ELSE u[<<j + 1, i>>],
         S |-> IF sb THEN G(x, ys) ELSE u[<<j - 1, i>>],
         NE |-> IF eb \/ nb THEN G(xe, yn) ELSE u[<<j + 1, i + 1>>],
         NW |-> IF wb \/ nb THEN G(xw, yn) ELSE u[<<j + 1, i - 1>>],
         SE |-> IF eb \/ sb THEN G(xe, ys) ELSE u[<<j - 1, i + 1>>],
         SW |-> IF wb \/ sb THEN G(xw, ys) ELSE u[<<j - 1, i - 1>>],
         reads |-> (IF eb THEN {} ELSE {<<j, i + 1>>})
                   \cup (IF wb THEN {} ELSE {<<j, i - 1>>})
                   \cup (IF nb THEN {} ELSE {<<j + 1, i>>})
                   \cup (IF sb THEN {} ELSE {<<j - 1, i>>})
                   \cup (IF eb \/ nb THEN {} ELSE {<<j + 1, i + 1>>})
                   \cup (IF wb \/ nb THEN {} ELSE {<<j + 1, i - 1>>})
                   \cup (IF eb \/ sb THEN {} ELSE {<<j - 1, i + 1>>})
                   \cup (IF wb \/ sb THEN {} ELSE {<<j - 1, i - 1>>})]

\* lines 261-279 of FormFunctionLocal: the residual at an interior node from
\* its own value uc and the neighbour values v
InteriorResidual(hx, hy, q, uc, v) ==
    LET hxhy == RDiv(hx, hy)
        hyhx == RDiv(hy, hx)
        ue == v.E
        uw == v.W
        un == v.N
        us == v.S
        une == v.NE
        unw == v.NW
        use == v.SE
        usw == v.SW
        four == MNum(RInt(4))
        Grad2(dux, duy) ==
            CHOOSE t \in {MAdd(MMul(a, a), MMul(b, b)) : a \in {dux}, b \in {duy}} : TRUE
        De == DD(Grad2(MDiv(MSub(ue, uc), MNum(hx)),
                       MDiv(MSub(MSub(MAdd(un, une), us), use),
                            MMul(four, MNum(hy)))), q)
        Dw == DD(Grad2(MDiv(MSub(uc, uw), MNum(hx)),
                       MDiv(MSub(MSub(MAdd(unw, un), usw), us),
                            MMul(four, MNum(hy)))), q)
        Dn == DD(Grad2(MDiv(MSub(MSub(MAdd(ue, une), uw), unw),
                            MMul(four, MNum(hx))),
                       MDiv(MSub(un, uc), MNum(hy))), q)
        Ds == DD(Grad2(MDiv(MSub(MSub(MAdd(ue, use), uw), usw),
                            MMul(four, MNum(hx))),
                       MDiv(MSub(uc, us), MNum(hy))), q)
    IN  MSub(MMul(MNum(RNeg(hyhx)),
                  MSub(MMul(De, MSub(ue, uc)), MMul(Dw, MSub(uc, uw)))),
             MMul(MNum(hxhy),
                  MSub(MMul(Dn, MSub(un, uc)), MMul(Ds, MSub(uc, us)))))

\* the body of the loops of FormFunctionLocal at the node (j, i): the value
\* stored in FF[j][i], the indices of au read and the neighbour values used
MSNode(info, u, usr, mctx, j, i) ==
    LET hx == MSSpacings(info).hx
        hy == MSSpacings(info).hy
        y == RMul(RInt(j), hy)
        x == RMul(RInt(i), hx)
    IN  IF j = 0 \/ i = 0 \/ i = info.mx - 1 \/ j = info.my - 1
        THEN [FF |-> MSub(u[<<j, i>>], g_bdry(usr, mctx, x, y)),
              reads |-> {<<j, i>>}, nbrs |-> <<>>]
        ELSE CHOOSE res \in
                 {[FF |-> InteriorResidual(hx, hy, mctx.q, u[<<j, i>>], v),
                   reads |-> {<<j, i>>} \cup v.reads,
                   nbrs |-> [d \in {"E", "W", "N", "S", "NE", "NW", "SE", "SW"} |-> v[d]]] :
                  v \in {NeighborValues(info, u, usr, mctx, j, i)}} : TRUE

\* PetscErrorCode FormFunctionLocal(DMDALocalInfo *info, PetscReal **au,
\*     PetscReal **FF, PoissonCtx *user) of minimal.c
MSFormFunctionLocal(info, u, F, usr, mctx) ==
    CHOOSE res \in
        {[FF |-> [n \in DOMAIN F |-> IF n \in HeatOwned(info) THEN at[n].FF ELSE F[n]],
          reads |-> UNION {at[n].reads : n \in HeatOwned(info)},
          nbrs |-> [n \in HeatOwned(info) |-> at[n].nbrs]] :
         at \in {[n \in HeatOwned(info) |-> MSNode(info, u, usr, mctx, n[1], n[2])]}} :
        TRUE

\* the switch of main(), lines 107-129, with the test of line 121 missing
ProblemSwitch_NoQTest(problem, exact_init, mctx) ==
    IF problem = TENT
    THEN IF exact_init THEN [err |-> 2, g_bdry |-> "uninitialized"]
         ELSE [err |-> 0, g_bdry |-> "g_bdry_tent"]
    ELSE IF problem = CATENOID
    THEN IF RLt(mctx.catenoid_c, RInt(1))
         THEN [err |-> 3, g_bdry |-> "uninitialized"]
         ELSE [err |-> 0, g_bdry |-> "g_bdry_catenoid"]
    ELSE [err |-> 5, g_bdry |-> "uninitialized"]

\* the switch of main(), lines 107-129: the SETERRQ code, 0 if none, and the
\* boundary function stored in user.g_bdry
ProblemSwitch(problem, exact_init, mctx) ==
    IF problem = TENT
    THEN IF exact_init THEN [err |-> 2, g_bdry |-> "uninitialized"]
         ELSE [err |-> 0, g_bdry |-> "g_bdry_tent"]
    ELSE IF problem = CATENOID
    THEN IF RLt(mctx.catenoid_c, RInt(1))
         THEN [err |-> 3, g_bdry |-> "uninitialized"]
         ELSE IF exact_init /\ mctx.q # R(-1, 2)
         THEN [err |-> 4, g_bdry |-> "uninitialized"]
         ELSE [err |-> 0, g_bdry |-> "g_bdry_catenoid"]
    ELSE [err |-> 5, g_bdry |-> "uninitialized"]

\* InitialState(da, ZEROS, PETSC_TRUE, u_initial, &user) of
\* ../ch6/poissonfunctions.h, as the comment of line 157 describes it:
\* u = g on the boundary and u = 0 in the interior
InitialState(info, usr, mctx) ==
    [n \in HeatNodes(info.mx, info.my) |->
        IF n[1] = 0 \/ n[2] = 0 \/ n[2] = info.mx - 1 \/ n[1] = info.my - 1
        THEN g_bdry(usr, mctx, RMul(RInt(n[2]), MSSpacings(info).hx),
                    RMul(RInt(n[1]), MSSpacings(info).hy))
        ELSE MNum(RInt(0))]

\* the heat.c, both1d.c and limiter state minimal.c never touches
MSFrame == UNCHANGED <<b1vars, limcalls, htvars, obsvars>>

\* the values given to -ms_catenoid_c and -ms_q, the defaults included
CatenoidCVals == {R(11, 10), R(1, 2), RInt(1)}
QVals == {R(-1, 2), RInt(0)}

\* main(), lines 66-105: defaults and options
MSParseOptions ==
    /\ ms_pc = "start"
    /\ \E c \in CatenoidCVals, q \in QVals :
          ms_mctx' = [q |-> q, tent_H |-> RInt(1), catenoid_c |-> c]
    /\ \E e \in BOOLEAN : ms_exact_init' = e
    /\ \E p \in ProblemType : ms_problem' = p
    /\ ms_pc' = "parsed"
    /\ UNCHANGED <<ms_errcode, ms_user, ms_da, ms_snes, ms_ranges, ms_init, ms_u,
                   ms_FF, ms_iter, ms_fdone, ms_flog>>
    /\ MSFrame

\* main(), lines 107-129: SETERRQ returns from main
MSCheckProblem ==
    /\ ms_pc = "parsed"
    /\ \E sw \in {ProblemSwitch(ms_problem, ms_exact_init, ms_mctx)} :
          IF sw.err # 0
          THEN /\ ms_pc' = "error"
               /\ ms_errcode' = sw.err
               /\ UNCHANGED ms_user
          ELSE /\ ms_pc' = "checked"
               /\ ms_user' = [g_bdry |-> sw.g_bdry]
               /\ UNCHANGED ms_errcode
    /\ UNCHANGED <<ms_problem, ms_exact_init, ms_mctx, ms_da, ms_snes, ms_ranges,
                   ms_init, ms_u, ms_FF, ms_iter, ms_fdone, ms_flog>>
    /\ MSFrame

\* main(), lines 131-150: the DMDA and the SNES
MSCreate ==
    /\ ms_pc = "checked"
    /\ \E m \in 2..MSMaxN, n \in 2..MSMaxN :
          /\ ms_da' = [created |-> TRUE, mx |-> m, my |-> n]
          /\ \E p \in GridPartitions(m, n) :
                /\ ms_ranges' = p
                /\ ms_fdone' = [r \in DOMAIN p |-> FALSE]
                /\ ms_flog' = [r \in DOMAIN p |-> [reads |-> {}, nbrs |-> <<>>]]
          /\ ms_u' = [nd \in HeatNodes(m, n) |-> MNum(RInt(0))]
          /\ ms_FF' = [nd \in HeatNodes(m, n) |-> MNum(RInt(0))]
    /\ ms_snes' = TRUE
    /\ ms_pc' = "created"
    /\ UNCHANGED <<ms_errcode, ms_problem, ms_exact_init, ms_mctx, ms_user,
                   ms_init, ms_iter>>
    /\ MSFrame

\* main(), lines 152-159: the initial iterate
MSInitialIterate ==
    /\ ms_pc = "created"
    /\ IF ms_problem = CATENOID /\ ms_mctx.q = R(-1, 2) /\ ms_exact_init
       THEN /\ ms_init' = "FormExactFromG"
            /\ ms_u' = FormExactFromG(MSWholeGrid, ms_u, ms_user, ms_mctx)
       ELSE /\ ms_init' = "InitialState"
            /\ ms_u' = InitialState(MSWholeGrid, ms_user, ms_mctx)
    /\ ms_pc' = "solve"
    /\ UNCHANGED <<ms_errcode, ms_problem, ms_exact_init, ms_mctx, ms_user, ms_da,
                   ms_snes, ms_ranges, ms_FF, ms_iter, ms_fdone, ms_flog>>
    /\ MSFrame

\* SNESSolve: rank r evaluates the residual at the current iterate
MSComputeFunction(r) ==
    /\ ms_pc = "solve"
    /\ ~ms_fdone[r]
    /\ \E res \in {MSFormFunctionLocal(MSInfoOf(r), ms_u, ms_FF, ms_user, ms_mctx)} :
          /\ ms_FF' = res.FF
          /\ ms_flog' = [ms_flog EXCEPT ![r] = [reads |-> res.reads, nbrs |-> res.nbrs]]
    /\ ms_fdone' = [ms_fdone EXCEPT ![r] = TRUE]
    /\ UNCHANGED <<ms_pc, ms_errcode, ms_problem, ms_exact_init, ms_mctx, ms_user,
                   ms_da, ms_snes, ms_ranges, ms_init, ms_u, ms_iter>>
    /\ MSFrame

MSOnBoundary(n) ==
    n[1] = 0 \/ n[2] = 0 \/ n[2] = ms_da.mx - 1 \/ n[1] = ms_da.my - 1

\* the iterates the solver supplies: 0 or 1 at the interior nodes, and on the
\* boundary either the boundary values or the value 3 everywhere
MSIterates ==
    {[n \in HeatNodes(ms_da.mx, ms_da.my) |->
         IF MSOnBoundary(n)
         THEN (IF onb THEN InitialState(MSWholeGrid, ms_user, ms_mctx)[n]
               ELSE MNum(RInt(3)))
         ELSE MNum(RInt(inner[n]))] :
       onb \in BOOLEAN,
       inner \in [{n \in HeatNodes(ms_da.mx, ms_da.my) : ~MSOnBoundary(n)} -> {0, 1}]}

\* SNESSolve: the solver moves to another iterate
MSNewIterate ==
    /\ ms_pc = "solve"
    /\ \A r \in MSRanks : ms_fdone[r]
    /\ ms_iter < MaxIter
    /\ \E u \in MSIterates : ms_u' = u
    /\ ms_iter' = ms_iter + 1
    /\ ms_fdone' = [r \in MSRanks |-> FALSE]
    /\ UNCHANGED <<ms_pc, ms_errcode, ms_problem, ms_exact_init, ms_mctx, ms_user,
                   ms_da, ms_snes, ms_ranges, ms_init, ms_FF, ms_flog>>
    /\ MSFrame

\* main(): SNESSolve returns
MSFinish ==
    /\ ms_pc = "solve"
    /\ \A r \in MSRanks : ms_fdone[r]
    /\ ms_pc' = "done"
    /\ UNCHANGED <<ms_errcode, ms_problem, ms_exact_init, ms_mctx, ms_user, ms_da,
                   ms_snes, ms_ranges, ms_init, ms_u, ms_FF, ms_iter, ms_fdone,
                   ms_flog>>
    /\ MSFrame

NextMinimal ==
    \/ MSParseOptions
    \/ MSCheckProblem
    \/ MSCreate
    \/ MSInitialIterate
    \/ \E r \in MSRanks : MSComputeFunction(r)
    \/ MSNewIterate
    \/ MSFinish

\* minimal.c alone
InitMinimal == InitLimiter

SpecMinimal == InitMinimal /\ [][NextMinimal]_vars

(***************************************************************************)
(* c/ch12/obstacle.c: GetActiveSet.                                        *)
(***************************************************************************)
\* const PetscReal zerotol = 1.0e-8
zerotol == R(1, 100000000)

\* the test of line 201 without the tolerance
IsActive_NoTolerance(u, xl, f) ==
    RGe(xl, u) /\ RLt(RInt(0), f)

\* line 201: (au[i] <= aXl[i] + zerotol) && (aF[i] > 0.0)
IsActive(u, xl, f) ==
    RGe(RAdd(xl, zerotol), u) /\ RLt(RInt(0), f)

\* lines 199-203: lact after the loop over the local entries i, .., n-1 of
\* the rank whose first entry is the global entry first
RECURSIVE CountLoop(_, _, _, _, _, _, _)
CountLoop(u, Xl, F, first, n, i, lact) ==
    IF i >= n THEN lact
    ELSE CountLoop(u, Xl, F, first, n, i + 1,
                   IF IsActive(u[first + i], Xl[first + i], F[first + i])
                   THEN lact + 1 ELSE lact)

RECURSIVE SumSeq(_, _)
SumSeq(seq, k) == IF k = 0 THEN 0 ELSE seq[k] + SumSeq(seq, k - 1)

\* MPI_Allreduce(&lact,&gact,1,MPIU_INT,MPIU_SUM,..)
MPI_Allreduce_SUM(lacts) == SumSeq(lacts, Len(lacts))

ObsRanks == 1..Len(obs_ranges)

\* the both1d.c, limiter, heat.c and minimal.c state obstacle.c never touches
ObsFrame == UNCHANGED <<b1vars, limcalls, htvars, msvars>>

\* the entries <<u, Xl, F>> of a node: u = Xl + zerotol with F > 0,
\* u = Xl + 2 zerotol with F > 0, and u = Xl with F = 0
ObsNodeCases ==
    {<<zerotol, RInt(0), RInt(1)>>, <<R(2, 100000000), RInt(0), RInt(1)>>,
     <<RInt(0), RInt(0), RInt(0)>>}

\* main(): the grid, its split among the ranks, the vectors, and the call
\* GetActiveSet(snes,&info,u,Xl,act,&actarea) of line 165, here with either
\* output pointer NULL or not
ObsCall ==
    /\ obs_phase = "start"
    /\ \E m \in 2..ObsMaxX, n \in 2..ObsMaxY :
          /\ obs_info' = [mx |-> m, my |-> n]
          /\ \E p \in Partitions(m * n) :
                /\ obs_ranges' = p
                /\ obs_rpc' = [r \in DOMAIN p |-> "enter"]
                /\ obs_lact' = [r \in DOMAIN p |-> 0]
                /\ obs_gact' = [r \in DOMAIN p |-> 0]
                /\ obs_out' = [r \in DOMAIN p |->
                                  [act |-> Unwritten, actarea |-> Unwritten]]
          /\ \E c \in [0..(m * n - 1) -> ObsNodeCases] :
                /\ obs_u' = [k \in 0..(m * n - 1) |-> c[k][1]]
                /\ obs_Xl' = [k \in 0..(m * n - 1) |-> c[k][2]]
                /\ obs_F' = [k \in 0..(m * n - 1) |-> c[k][3]]
    /\ \E a \in BOOLEAN, b \in BOOLEAN : obs_args' = [act |-> a, actarea |-> b]
    /\ obs_phase' = "called"
    /\ ObsFrame

\* GetActiveSet, lines 192-206, on rank r
GetActiveSetCount(r) ==
    /\ obs_phase = "called"
    /\ obs_rpc[r] = "enter"
    /\ obs_lact' = [obs_lact EXCEPT ![r] =
                       CountLoop(obs_u, obs_Xl, obs_F, obs_ranges[r][1],
                                 obs_ranges[r][2], 0, 0)]
    /\ obs_rpc' = [obs_rpc EXCEPT ![r] = "counted"]
    /\ UNCHANGED <<obs_phase, obs_info, obs_ranges, obs_u, obs_Xl, obs_F,
                   obs_args, obs_gact, obs_out>>
    /\ ObsFrame

\* GetActiveSet, line 207: the collective sum, once every rank has arrived
GetActiveSetAllreduce ==
    /\ obs_phase = "called"
    /\ \A r \in ObsRanks : obs_rpc[r] = "counted"
    /\ obs_gact' = [r \in ObsRanks |-> MPI_Allreduce_SUM(obs_lact)]
    /\ obs_rpc' = [r \in ObsRanks |-> "reduced"]
    /\ UNCHANGED <<obs_phase, obs_info, obs_ranges, obs_u, obs_Xl, obs_F,
                   obs_args, obs_lact, obs_out>>
    /\ ObsFrame

\* lines 192-193 and 208-213: dx, dy and the two guarded writes
WriteOutputs(info, args, gact, out) ==
    LET dx == RDiv(RInt(4), RInt(info.mx - 1))
        dy == RDiv(RInt(4), RInt(info.my - 1))
    IN  [act |-> IF args.act THEN gact ELSE out.act,
         actarea |-> IF args.actarea THEN RMul(RMul(dx, dy), RInt(gact))
                     ELSE out.actarea]

\* GetActiveSet, lines 208-214, on rank r
GetActiveSetReturn(r) ==
    /\ obs_phase = "called"
    /\ obs_rpc[r] = "reduced"
    /\ obs_out' = [obs_out EXCEPT ![r] =
                      WriteOutputs(obs_info, obs_args, obs_gact[r], obs_out[r])]
    /\ obs_rpc' = [obs_rpc EXCEPT ![r] = "returned"]
    /\ UNCHANGED <<obs_phase, obs_info, obs_ranges, obs_u, obs_Xl, obs_F,
                   obs_args, obs_lact, obs_gact>>
    /\ ObsFrame

NextObstacle ==
    \/ ObsCall
    \/ \E r \in ObsRanks : GetActiveSetCount(r)
    \/ GetActiveSetAllreduce
    \/ \E r \in ObsRanks : GetActiveSetReturn(r)

\* GetActiveSet alone
InitObstacle == InitLimiter

SpecObstacle == InitObstacle /\ [][NextObstacle]_vars

(***************************************************************************)
(* Properties.                                                             *)
(***************************************************************************)
Owned(r) == ranges[r][1]..(ranges[r][1] + ranges[r][2] - 1)
Interior(i) == 0 < i /\ i < mx - 1
Count(seq, e) == Cardinality({k \in DOMAIN seq : seq[k] = e})
Evaluating == pc \in {"solve", "done", "error"} /\ mx > 0

\* the residual one rank owning all of [0, mx) computes at the vector u
SingleRankF(u) ==
    FormFunctionLocal([mx |-> mx, xs |-> 0, xm |-> mx], u, ZeroVec(mx), user).aF

\* C1: on every rank that has evaluated the residual, each owned entry equals
\* the entry a single rank owning the whole grid computes, and each owned
\* interior cell i received exactly one +flux (face i) and one -flux
\* (face i-1), boundary cells none, and no cell outside the owned range any.
C1_DecompositionIndependence ==
    Evaluating =>
        \A r \in Ranks : fdone[r] =>
            \A whole \in {SingleRankF(au)} : \A ops \in {flog[r].fluxops} :
                /\ \A i \in Owned(r) : aF[i] = whole[i]
                /\ \A i \in Owned(r) :
                      IF Interior(i)
                      THEN /\ Count(ops, <<i, i, 1>>) = 1
                           /\ Count(ops, <<i, i - 1, -1>>) = 1
                           /\ Cardinality({k \in DOMAIN ops : ops[k][1] = i}) = 2
                      ELSE \A k \in DOMAIN ops : ops[k][1] # i
                /\ \A k \in DOMAIN ops : ops[k][1] \in Owned(r)

\* two ranks have evaluated, the ownership boundary lies between two interior
\* cells and the flux through that face is not zero
C1_Witness ==
    /\ pc = "solve"
    /\ Len(ranges) = 2
    /\ \A r \in Ranks : fdone[r]
    /\ Interior(ranges[2][1] - 1)
    /\ Interior(ranges[2][1])
    /\ au[ranges[2][1] - 1] # RInt(0)

\* perturbations of one entry of the trial vector
DVals == {-1, 1, 3}

\* C2: with the same limiter (none or centered) on both sides and the matrix
\* assembled by every rank, P[i][j] is the exact change of F_i per unit
\* change of u_j at the current trial vector.
C2_JacobianConsistent ==
    (/\ Evaluating
     /\ user.limiter_fcn = user.jac_limiter_fcn
     /\ user.limiter_fcn \in {"NULL", "centered"}
     /\ \A r \in Ranks : fdone[r] /\ jdone[r]) =>
        \A j \in 0..(mx - 1) : \A d \in DVals :
            \A Fd \in {SingleRankF([au EXCEPT ![j] = RAdd(@, RInt(d))])} :
                \A i \in 0..(mx - 1) :
                    RSub(Fd[i], aF[i]) = RMul(RInt(d), P[<<i, j>>])

\* the centered limiter on both sides, two interior rows, a nonzero vector
C2_Witness ==
    /\ pc = "solve"
    /\ user.limiter_fcn = "centered"
    /\ user.jac_limiter_fcn = "centered"
    /\ mx >= 4
    /\ Len(ranges) = 2
    /\ \A r \in Ranks : fdone[r] /\ jdone[r]
    /\ au[1] # au[2]

\* C3: with van Leer on the Jacobian side no rank ever completes
\* FormJacobianLocal, the matrix keeps the contents it had and no Mat call
\* (zeroing, insertion, assembly) is made.
C3_VanLeerJacobianFails ==
    (Evaluating /\ user.jac_limiter_fcn = "vanleer") =>
        /\ P = ZeroMat(mx)
        /\ \A r \in Ranks : ~jdone[r] /\ jlog[r] = <<>>
        /\ errcode \in {0, 1}
        /\ pc = "error" => errcode = 1

\* the call has failed with residual limiter none
C3_Witness ==
    /\ pc = "error"
    /\ errcode = 1
    /\ user.jac_limiter_fcn = "vanleer"
    /\ user.limiter_fcn = "NULL"

\* 2*eps/h + 1 with h = 2/(N-1), written out
ScdiagExpected == RAdd(RMul(user.eps, RInt(mx - 1)), RInt(1))

\* C4: on a grid of at least two points, after a rank has evaluated, an owned
\* boundary row holds scdiag*(u_0 - 1) resp. scdiag*(u_{N-1} - 0), and the
\* face pass made no flux update to row 0 or N-1.
C4_BoundaryRows ==
    (Evaluating /\ mx >= 2) =>
        \A r \in Ranks : fdone[r] =>
            /\ 0 \in Owned(r) =>
                  aF[0] = RMul(ScdiagExpected, RSub(au[0], RInt(1)))
            /\ (mx - 1) \in Owned(r) =>
                  aF[mx - 1] = RMul(ScdiagExpected, au[mx - 1])
            /\ \A k \in DOMAIN flog[r].fluxops :
                  flog[r].fluxops[k][1] \notin {0, mx - 1}

\* negative wind, van Leer, boundary values off the Dirichlet data
C4_Witness ==
    /\ pc = "solve"
    /\ wind < 0
    /\ user.limiter_fcn = "vanleer"
    /\ mx >= 3
    /\ \A r \in Ranks : fdone[r]
    /\ au[0] # RInt(1)
    /\ au[mx - 1] # RInt(0)
    /\ au[1] # au[0]

\* C5: every index of au read and of aF written by FormFunctionLocal, and
\* every row and column FormJacobianLocal passes to MatSetValues, lies in
\* [0, N-1].
C5_IndicesInDomain ==
    Evaluating =>
        \A r \in Ranks :
            /\ flog[r].reads \subseteq 0..(mx - 1)
            /\ flog[r].writes \subseteq 0..(mx - 1)
            /\ \A k \in DOMAIN jlog[r] :
                  jlog[r][k][1] = "MatSetValues" =>
                      /\ jlog[r][k][2] \in 0..(mx - 1)
                      /\ \A c \in DOMAIN jlog[r][k][3] :
                            jlog[r][k][3][c] \in 0..(mx - 1)

\* negative wind with a limiter: the far-upstream value is requested next to
\* the right boundary, and the matrix rows have been inserted
C5_Witness ==
    /\ pc = "solve"
    /\ wind < 0
    /\ user.limiter_fcn = "vanleer"
    /\ user.jac_limiter_fcn = "centered"
    /\ mx >= 4
    /\ \A r \in Ranks : fdone[r] /\ jdone[r]
    /\ \E r \in Ranks : (mx - 2) \in flog[r].reads /\ flog[r].thetas # {}

\* C6 as claimed: every index of au a rank reads lies within one cell of its
\* owned range.
C6_OneCellHalo ==
    Evaluating =>
        \A r \in Ranks :
            flog[r].reads \subseteq (ranges[r][1] - 1)..(ranges[r][1] + ranges[r][2])

\* C6 amended: the reads lie within two cells of the owned range (the DMDA's
\* stencil width, line 88): the far-upstream value of a limited flux is one
\* cell further out, on the upstream side; without a limiter one cell is
\* enough.
C6_TwoCellHalo ==
    Evaluating =>
        \A r \in Ranks :
            LET xs == ranges[r][1]
                xe == ranges[r][1] + ranges[r][2]
            IN  /\ flog[r].reads \subseteq (xs - 2)..(xe + 1)
                /\ user.limiter_fcn = "NULL" => flog[r].reads \subseteq (xs - 1)..xe
                /\ wind >= 0 => flog[r].reads \subseteq (xs - 2)..xe
                /\ wind < 0 => flog[r].reads \subseteq (xs - 1)..(xe + 1)

\* a rank has read the entry two cells left of its owned range
C6_Witness ==
    /\ pc = "solve"
    /\ \E r \in Ranks :
          /\ fdone[r]
          /\ user.limiter_fcn = "centered"
          /\ (ranges[r][1] - 2) \in flog[r].reads

\* values put in place of a boundary entry of the trial vector
AltVals == {RInt(0), RInt(1), RInt(2), RInt(5)}

\* C7: no interior residual entry a rank computed changes when the trial
\* vector's entry u_0 or u_{N-1} is replaced by another value.
C7_InteriorIgnoresBoundaryEntries ==
    Evaluating =>
        \A r \in Ranks : fdone[r] =>
            \A v \in AltVals :
                \A FL \in {FormFunctionLocal(InfoOf(r), [au EXCEPT ![0] = v], aF, user).aF} :
                \A FR \in {FormFunctionLocal(InfoOf(r), [au EXCEPT ![mx - 1] = v], aF, user).aF} :
                    \A i \in Owned(r) :
                        Interior(i) => FL[i] = aF[i] /\ FR[i] = aF[i]

\* C8: on a grid of fewer than two points no rank computes a residual or a
\* Jacobian entry, and the run does not complete.
C8_DegenerateGridRejected ==
    (Evaluating /\ mx < 2) =>
        /\ \A r \in Ranks : flog[r].writes = {} /\ jlog[r] = <<>>
        /\ pc # "done"

\* C9: once the options are read, eps <= 0 leads only to the error exit with
\* code 2, with no grid, no limiter pointers and no evaluation; eps > 0 never
\* gives that error.
C9_EpsChecked ==
    pc # "start" =>
        IF RGe(RInt(0), user.eps)
        THEN /\ pc \in {"parsed", "error"}
             /\ pc = "error" => errcode = 2
             /\ mx = 0 /\ ranges = <<>> /\ P = <<>> /\ flog = <<>> /\ jlog = <<>>
             /\ user.limiter_fcn = Uninit
        ELSE errcode # 2 /\ (pc = "error" => errcode = 1)

\* the run was aborted for eps = 0
C9_Witness ==
    /\ pc = "error"
    /\ errcode = 2
    /\ user.eps = RInt(0)

\* the function a limiter choice selects, written out
LimiterFcnName(l) ==
    CASE l = NONE -> "NULL" [] l = CENTERED -> "centered" [] l = VANLEER -> "vanleer"

\* C10: after the limiter pointers are set, the residual side is the -limiter
\* option (default none); the Jacobian side is the -jac_limiter option when
\* given, else the residual side; with -snes_fd or -snes_fd_color it is
\* cleared (NULL, index 4) and error 1 never occurs.
C10_LimiterConfiguration ==
    /\ pc \notin {"start"} =>
          /\ limiter = (IF argv.limiter = <<>> THEN NONE ELSE argv.limiter[1])
          /\ pc = "parsed" =>
                jac_limiter = (IF argv.jac_limiter = <<>> THEN limiter
                               ELSE argv.jac_limiter[1])
    /\ pc \in {"limset", "solve", "done"} \/ (pc = "error" /\ errcode = 1) =>
          /\ user.limiter_fcn = LimiterFcnName(limiter)
          /\ IF argv.snes_fd \/ argv.snes_fd_color
             THEN /\ user.jac_limiter_fcn = "NULL"
                  /\ jac_limiter = 4
                  /\ errcode = 0
                  /\ \A r \in DOMAIN jlog : jlog[r] = <<>>
             ELSE IF argv.jac_limiter = <<>>
             THEN /\ jac_limiter = limiter
                  /\ user.jac_limiter_fcn = user.limiter_fcn
             ELSE /\ jac_limiter = argv.jac_limiter[1]
                  /\ user.jac_limiter_fcn = LimiterFcnName(argv.jac_limiter[1])

\* a run with a van Leer residual and -snes_fd_color alone has completed
C10_Witness ==
    /\ pc = "done"
    /\ argv.limiter = <<VANLEER>>
    /\ argv.jac_limiter = <<VANLEER>>
    /\ argv.snes_fd_color
    /\ ~argv.snes_fd
    /\ iter = MaxIter

\* contents the residual array may hold when FormFunctionLocal is entered
StaleVecs == {[i \in 0..(mx - 1) |-> RInt(v)] : v \in {0, 7}}

\* the entries of F a rank holds: those of its owned range
OwnedPart(r, F) == [i \in Owned(r) |-> F[i]]

\* C11: the residual a rank has computed is the one FormFunctionLocal gives
\* from any other contents of the residual array (all entries 0, all entries
\* 7) and the one a second call on its own result gives: the owned entries
\* depend on the grid, the trial vector, eps and the limiter only.  A step
\* that changes the residual array or a rank's call trace leaves the trial
\* vector as it was.
C11_ResidualRecomputed ==
    /\ [](Evaluating =>
            \A r \in Ranks : fdone[r] =>
                /\ \A G \in StaleVecs :
                      OwnedPart(r, FormFunctionLocal(InfoOf(r), au, G, user).aF)
                          = OwnedPart(r, aF)
                /\ FormFunctionLocal(InfoOf(r), au, aF, user).aF = aF)
    /\ [][(pc = "solve" /\ (aF' # aF \/ flog' # flog \/ fdone' # fdone)
              /\ (\E r \in Ranks : ~fdone[r] /\ fdone'[r])) => au' = au]_vars

\* a rank has evaluated at the second trial vector, on a residual array that
\* held the nonzero residual of the first, with van Leer flux corrections
C11_Witness ==
    /\ pc = "solve"
    /\ iter = 1
    /\ mx >= 3
    /\ user.limiter_fcn = "vanleer"
    /\ \E r \in Ranks : fdone[r] /\ flog[r].thetas # {} /\ Cardinality(Owned(r)) >= 2
    /\ \E i \in 0..(mx - 1) : au[i] # RInt(0)

\* the value the call log[k] adds to P[i][j]
RECURSIVE EntrySum(_, _, _, _)
EntrySum(e, i, j, c) ==
    IF c > Len(e[3]) THEN RInt(0)
    ELSE RAdd(IF e[2] = i /\ e[3][c] = j THEN e[4][c] ELSE RInt(0),
              EntrySum(e, i, j, c + 1))

\* the sum of the values the MatSetValues calls of log give for P[i][j]
RECURSIVE LoggedSum(_, _, _, _)
LoggedSum(log, i, j, k) ==
    IF k > Len(log) THEN RInt(0)
    ELSE RAdd(IF log[k][1] = "MatSetValues" THEN EntrySum(log[k], i, j, 1) ELSE RInt(0),
              LoggedSum(log, i, j, k + 1))

RowCalls(log, i) == {k \in DOMAIN log : log[k][1] = "MatSetValues" /\ log[k][2] = i}

\* C13: with Jacobian limiter none or centered, a rank that has assembled
\* made exactly one insertion for an owned boundary row, of 2*eps/h + 1 on the diagonal, and the row holds nothing
\* else; for an owned interior row i every inserted column is i-1, i or i+1,
\* every entry outside these columns is 0 and the row has at most 5 nonzeros.
C13_JacobianSparsity ==
    (Evaluating /\ user.jac_limiter_fcn \in {"NULL", "centered"}) =>
        \A r \in Ranks : jdone[r] =>
            \A log \in {jlog[r]} : \A i \in Owned(r) :
                IF Interior(i)
                THEN /\ \A k \in RowCalls(log, i) : \A c \in DOMAIN log[k][3] :
                            log[k][3][c] \in {i - 1, i, i + 1}
                     /\ \A j \in 0..(mx - 1) :
                            j \notin {i - 1, i, i + 1} => P[<<i, j>>] = RInt(0)
                     /\ Cardinality({j \in 0..(mx - 1) : P[<<i, j>>] # RInt(0)}) <= 5
                ELSE /\ Cardinality(RowCalls(log, i)) = 1
                     /\ \A k \in RowCalls(log, i) :
                            log[k][3] = <<i>> /\ log[k][4] = <<ScdiagExpected>>
                     /\ \A j \in 0..(mx - 1) :
                            P[<<i, j>>] = (IF j = i THEN ScdiagExpected ELSE RInt(0))

\* the centered Jacobian of a four-point grid is assembled: rows 1 and 2 are
\* interior, and column 3 of row 1 and column 0 of row 2 lie outside the band
C13_Witness ==
    /\ pc = "solve"
    /\ user.jac_limiter_fcn = "centered"
    /\ mx = 4
    /\ \A r \in Ranks : jdone[r]
    /\ P[<<1, 2>>] # RInt(0)
    /\ P[<<0, 0>>] = ScdiagExpected

\* C14: with Jacobian limiter none or centered and either wind sign, a rank
\* that has assembled left P[i][0] = 0 and P[i][N-1] = 0 in every owned
\* interior row i, and every value it inserted into these two columns of an
\* interior row (diffusion, upwind, centered correction) is 0.
C14_DirichletColumnsZero ==
    (Evaluating /\ user.jac_limiter_fcn \in {"NULL", "centered"}) =>
        \A r \in Ranks : jdone[r] =>
            \A log \in {jlog[r]} : \A i \in Owned(r) :
                Interior(i) =>
                    /\ P[<<i, 0>>] = RInt(0)
                    /\ P[<<i, mx - 1>>] = RInt(0)
                    /\ \A k \in RowCalls(log, i) : \A c \in DOMAIN log[k][3] :
                          log[k][3][c] \in {0, mx - 1} => log[k][4][c] = RInt(0)

\* negative wind, centered limiter: rows 1 and N-2 are assembled and their
\* neighbours are the two Dirichlet columns
C14_Witness ==
    /\ pc = "solve"
    /\ wind < 0
    /\ user.jac_limiter_fcn = "centered"
    /\ mx >= 3
    /\ \A r \in Ranks : jdone[r]
    /\ P[<<1, 1>>] # RInt(0)
    /\ \E k \in DOMAIN jlog[1] :
          jlog[1][k][1] = "MatSetValues" /\ jlog[1][k][2] = 1
              /\ jlog[1][k][3] = <<2, 1>>

\* the faces a rank computes a flux at: the E faces of cells xs-1 .. xs+xm-1
\* inside the grid
FacesOf(r) == {i \in (ranges[r][1] - 1)..(ranges[r][1] + ranges[r][2] - 1) :
                  0 <= i /\ i < mx - 1}

\* the two values line 206 compares at face i
UpwindAt(i) ==
    IF wind >= 0 THEN (IF i = 0 THEN RInt(1) ELSE au[i])
    ELSE (IF i + 1 = mx - 1 THEN RInt(0) ELSE au[i + 1])
DownwindAt(i) ==
    IF wind >= 0 THEN (IF i + 1 < mx - 1 THEN au[i + 1] ELSE RInt(0))
    ELSE au[i]

\* C15: no rank has divided by a zero denominator u_dn - u_up; at a face
\* whose downwind and upwind values are equal the flux is wind * upwind value
\* and no theta is computed, for every limiter; at a face where they differ
\* and a limiter is set the one denominator used is their difference.
C15_NoZeroDenominator ==
    Evaluating =>
        \A r \in Ranks : fdone[r] =>
            /\ RInt(0) \notin flog[r].thetas
            /\ \A i \in FacesOf(r) : \A f \in {FaceFlux(InfoOf(r), au, user, i)} :
                  /\ RInt(0) \notin f.thetas
                  /\ f.thetas \subseteq flog[r].thetas
                  /\ IF DownwindAt(i) = UpwindAt(i) \/ user.limiter_fcn = "NULL"
                     THEN /\ f.flux = RMul(RInt(wind), UpwindAt(i))
                          /\ f.thetas = {}
                     ELSE f.thetas = {RSub(DownwindAt(i), UpwindAt(i))}

\* van Leer on four points: the two interior values are equal and nonzero,
\* so face 1 is skipped, while face 0 computes theta
C15_Witness ==
    /\ pc = "solve"
    /\ user.limiter_fcn = "vanleer"
    /\ wind >= 0
    /\ mx = 4
    /\ \A r \in Ranks : fdone[r]
    /\ au[1] = au[2]
    /\ au[1] # RInt(0)
    /\ \E r \in Ranks : flog[r].thetas # {}

\* 0.5*(theta+|theta|)/(1+|theta|) written out on numerator and denominator
\* of theta = n/d, d > 0: n/(d+n) for n > 0, and 0 otherwise
VanLeerExpected(theta) ==
    IF theta[1] > 0 THEN R(theta[1], theta[2] + theta[1]) ELSE RInt(0)

\* C16: every call of centered returned 1/2; every call of vanleer returned
\* 0.5*(theta+|theta|)/(1+|theta|), which is 0 when theta <= 0 and strictly
\* between 0 and 1 when theta > 0; and of two calls of vanleer the one with
\* the larger theta returned at least as much.
C16_LimiterFunctions ==
    /\ \A k \in DOMAIN limcalls : \A c \in {limcalls[k]} :
          IF c[1] = "centered"
          THEN c[3] = R(1, 2)
          ELSE /\ c[3] = VanLeerExpected(c[2])
               /\ RGe(RInt(0), c[2]) => c[3] = RInt(0)
               /\ RLt(RInt(0), c[2]) => RLt(RInt(0), c[3]) /\ RLt(c[3], RInt(1))
    /\ \A k \in DOMAIN limcalls : \A m \in DOMAIN limcalls :
          (/\ limcalls[k][1] = "vanleer"
           /\ limcalls[m][1] = "vanleer"
           /\ RGe(limcalls[m][2], limcalls[k][2])) =>
              RGe(limcalls[m][3], limcalls[k][3])

\* vanleer was called with a negative theta and then with theta = 4, the
\* largest value tried
C16_Witness ==
    /\ Len(limcalls) = 2
    /\ limcalls[1][1] = "vanleer"
    /\ limcalls[2][1] = "vanleer"
    /\ RLt(limcalls[1][2], RInt(0))
    /\ limcalls[2][2] = RInt(MaxTheta)
    /\ limcalls[2][3] = R(MaxTheta, MaxTheta + 1)

\* the rows a rank passed to MatSetValues in its last FormJacobianLocal call
RowsInserted(r) ==
    {jlog[r][k][2] : k \in {m \in DOMAIN jlog[r] : jlog[r][m][1] = "MatSetValues"}}

\* C17: every index of aF a rank assigned or updated, every cell it applied
\* a flux to and every row it passed to MatSetValues lies in its owned range
\* [xs, xs+xm): a flux is applied to cell i or i+1 only if the rank owns it;
\* so the residual entries and the matrix rows two different ranks wrote are
\* disjoint.
C17_OwnershipExclusive ==
    Evaluating =>
        /\ \A r \in Ranks :
              /\ flog[r].writes \subseteq Owned(r)
              /\ \A k \in DOMAIN flog[r].fluxops : flog[r].fluxops[k][1] \in Owned(r)
              /\ RowsInserted(r) \subseteq Owned(r)
              /\ fdone[r] => flog[r].writes = Owned(r)
              /\ jdone[r] => RowsInserted(r) = Owned(r)
        /\ \A r \in Ranks : \A q \in Ranks :
              r # q => /\ flog[r].writes \cap flog[q].writes = {}
                       /\ RowsInserted(r) \cap RowsInserted(q) = {}

\* two ranks meet between two interior cells, the flux through the face
\* between them is not zero, and both have evaluated and assembled: each
\* computed that flux and applied it to its own cell only
C17_Witness ==
    /\ pc = "solve"
    /\ Len(ranges) = 2
    /\ Interior(ranges[2][1] - 1)
    /\ Interior(ranges[2][1])
    /\ user.limiter_fcn = "centered"
    /\ au[ranges[2][1] - 1] # RInt(0)
    /\ \A r \in Ranks : fdone[r] /\ jdone[r]
    /\ \E k \in DOMAIN flog[1].fluxops :
          flog[1].fluxops[k] = <<ranges[2][1] - 1, ranges[2][1] - 1, 1>>
    /\ \E k \in DOMAIN flog[2].fluxops :
          flog[2].fluxops[k] = <<ranges[2][1], ranges[2][1] - 1, -1>>

\* contents the matrix may hold when FormJacobianLocal is entered
StaleMats == {[rc \in (0..(mx - 1)) \X (0..(mx - 1)) |-> RInt(v)] : v \in {0, 7}}

\* trial vectors other than the current one
OtherVecs == {[i \in 0..(mx - 1) |-> RInt(v)] : v \in {1, 5}}

\* C18: with Jacobian limiter none or centered, the rows a rank has assembled
\* are those FormJacobianLocal gives on the same grid with the same eps and
\* limiter at any other trial vector and from any other contents of the
\* matrix (all entries 0, all entries 7): nothing of an earlier evaluation or
\* of the trial vector remains in them.
C18_JacobianConfigurationOnly ==
    (/\ Evaluating
     /\ user.jac_limiter_fcn \in {"NULL", "centered"}
     /\ \E r \in Ranks : jdone[r]) =>
        \A M0 \in StaleMats : \A u \in OtherVecs :
            \A ref \in {FormJacobianLocal([mx |-> mx, xs |-> 0, xm |-> mx],
                                          u, M0, <<>>, user).P} :
                \A r \in Ranks : jdone[r] =>
                    \A i \in Owned(r) : \A j \in 0..(mx - 1) :
                        P[<<i, j>>] = ref[<<i, j>>]

\* the second evaluation, at a nonzero trial vector: rank 1 has assembled its
\* rows again, rank 2 not yet, and its rows still hold the first assembly
C18_Witness ==
    /\ pc = "solve"
    /\ iter = 1
    /\ user.jac_limiter_fcn = "centered"
    /\ Len(ranges) = 2
    /\ mx = 4
    /\ jdone[1]
    /\ ~jdone[2]
    /\ \E i \in 0..(mx - 1) : au[i] # RInt(0)
    /\ P[<<ranges[2][1], ranges[2][1]>>] # RInt(0)
    /\ P[<<1, 1>>] # RInt(0)

\* the mesh width h = 2/(N-1)
MeshWidth == R(2, mx - 1)

\* the neighbours of interior cell i with the Dirichlet data put in
WestValue(i) == IF i - 1 = 0 THEN RInt(1) ELSE au[i - 1]
EastValue(i) == IF i + 1 = mx - 1 THEN RInt(0) ELSE au[i + 1]

\* C19: with limiter none and wind a >= 0, every owned interior entry a rank
\* has computed is -eps*(uW - 2*u_i + uE)/h + a*(u_i - uW), uW being 1 when
\* i-1 = 0 and u_{i-1} otherwise, uE being 0 when i+1 = N-1 and u_{i+1}
\* otherwise.
C19_UpwindResidual ==
    (Evaluating /\ user.limiter_fcn = "NULL" /\ wind >= 0) =>
        \A r \in Ranks : fdone[r] =>
            \A i \in Owned(r) : Interior(i) =>
                aF[i] = RAdd(RMul(RNeg(user.eps),
                                  RDiv(RAdd(RSub(WestValue(i), RMul(RInt(2), au[i])),
                                            EastValue(i)),
                                       MeshWidth)),
                             RMul(RInt(wind), RSub(au[i], WestValue(i))))

\* limiter none on four points at a trial vector whose interior values
\* differ: both interior entries are computed, by two ranks
C19_Witness ==
    /\ pc = "solve"
    /\ user.limiter_fcn = "NULL"
    /\ wind >= 0
    /\ mx = 4
    /\ Len(ranges) = 2
    /\ ranges[2][1] = 2
    /\ \A r \in Ranks : fdone[r]
    /\ au[1] # au[2]
    /\ au[3] # RInt(0)
    /\ aF[1] # RInt(0)
    /\ aF[2] # RInt(0)

\* the value at node k with the Dirichlet data put in at the boundary nodes
NodeValue(k) ==
    IF k = 0 THEN RInt(1) ELSE IF k = mx - 1 THEN RInt(0) ELSE au[k]

\* the faces whose flux a rank applied to a cell
FacesApplied(r) == {flog[r].fluxops[k][2] : k \in DOMAIN flog[r].fluxops}

\* C20: with the centered limiter, the flux a rank computed at a face i and
\* applied to a cell is wind times the average of the values at nodes i and
\* i+1, the Dirichlet data standing for a boundary node, for either wind
\* sign.
C20_CenteredFlux ==
    (Evaluating /\ user.limiter_fcn = "centered") =>
        \A r \in Ranks : fdone[r] =>
            \A i \in FacesApplied(r) :
                FaceFlux(InfoOf(r), au, user, i).flux
                    = RMul(RInt(wind), RDiv(RAdd(NodeValue(i), NodeValue(i + 1)), RInt(2)))

\* the diffusive part of the residual at interior cell i
DiffusivePart(i) ==
    RMul(RNeg(user.eps),
         RDiv(RAdd(RSub(WestValue(i), RMul(RInt(2), au[i])), EastValue(i)), MeshWidth))

\* the sum of aF[i] less its diffusive part over the cells i .. N-2
RECURSIVE AdvectiveSum(_)
AdvectiveSum(i) ==
    IF i > mx - 2 THEN RInt(0)
    ELSE RAdd(RSub(aF[i], DiffusivePart(i)), AdvectiveSum(i + 1))

\* the flux at face i as a rank owning the whole grid computes it
FluxAt(i) == FaceFlux([mx |-> mx, xs |-> 0, xm |-> mx], au, user, i).flux

\* the number of times the ranks together applied face f to cell c with sign sg
Applied(c, f, sg) ==
    Cardinality({rk \in {<<r, k>> : r \in Ranks, k \in 1..(2 * mx)} :
                    /\ rk[2] \in DOMAIN flog[rk[1]].fluxops
                    /\ flog[rk[1]].fluxops[rk[2]] = <<c, f, sg>>})

\* C21: once every rank has evaluated on a grid with an interior cell, the
\* residual less its diffusive part, summed over the interior cells 1..N-2,
\* is flux(face N-2) - flux(face 0); each face between two interior cells
\* was applied once with + to its left cell and once with - to its right
\* cell, with the same value on the ranks that did so; face 0 was applied
\* only with - to cell 1 and face N-2 only with + to cell N-2.
C21_FluxConservation ==
    (Evaluating /\ mx >= 3 /\ \A r \in Ranks : fdone[r]) =>
        /\ AdvectiveSum(1) = RSub(FluxAt(mx - 2), FluxAt(0))
        /\ \A f \in 1..(mx - 3) :
              /\ Applied(f, f, 1) = 1
              /\ Applied(f + 1, f, -1) = 1
              /\ \A r \in Ranks : f \in FacesApplied(r) =>
                    FaceFlux(InfoOf(r), au, user, f).flux = FluxAt(f)
        /\ Applied(1, 0, -1) = 1
        /\ Applied(mx - 2, mx - 2, 1) = 1
        /\ \A r \in Ranks : \A k \in DOMAIN flog[r].fluxops :
              \E f \in 0..(mx - 2) :
                  flog[r].fluxops[k] \in {<<f, f, 1>>, <<f + 1, f, -1>>}

\* van Leer on four points split between two ranks at the interior face 1,
\* whose flux is not zero; the fluxes at faces 0 and 2 differ
C21_Witness ==
    /\ pc = "solve"
    /\ user.limiter_fcn = "vanleer"
    /\ mx = 4
    /\ Len(ranges) = 2
    /\ ranges[2][1] = 2
    /\ \A r \in Ranks : fdone[r]
    /\ FluxAt(1) # RInt(0)
    /\ FluxAt(2) # FluxAt(0)


\* the right-hand side of heat.c on the whole grid at the state u
HeatG(u) ==
    FormRHSFunctionLocal([mx |-> ht_info.mx, my |-> ht_info.my, xs |-> 0,
                          xm |-> ht_info.mx, ys |-> 0, ym |-> ht_info.my],
                         u, ht_aG, ht_user)
HeatAssembled ==
    /\ ht_pc \in {"solve", "done"}
    /\ \A r \in HeatRanks : ht_fdone[r] /\ ht_jdone[r]
HeatUnit(u, k) == [u EXCEPT ![k] = RAdd(u[k], RInt(1))]
HeatInvH2(h) == RDiv(RInt(1), RMul(h, h))

\* C22: heat.c: once every rank has run FormRHSFunctionLocal and
\* FormRHSJacobianLocal at a state u, the matrix is the exact derivative of G
\* (G is affine in u, so G(u + e_k) - G(u) is column k of the matrix); rows
\* with 0 < i < mx-1 were given the 5-point stencil -2D(1/hx^2+1/hy^2), D/hy^2
\* at j-1 and j+1, D/hx^2 at i-1 and i+1; rows at i = 0 or i = mx-1 were given
\* exactly 4 entries, the single in-domain x-neighbour with 2D/hx^2; and no
\* column lies outside 0..mx-1 in x.
C22_ExactJacobian ==
    HeatAssembled =>
        /\ \A k \in DOMAIN ht_au : \A Gk \in {HeatG(HeatUnit(ht_au, k))} :
              \A n \in DOMAIN ht_au :
                  /\ RSub(Gk[n].lin, ht_aG[n].lin) = ht_P[<<n, k>>]
                  /\ Gk[n].sym = ht_aG[n].sym
        /\ \A r \in HeatRanks : \A c \in DOMAIN ht_jlog[r] :
              LET s == ht_jlog[r][c]
                  j == s.row[1]
                  i == s.row[2]
                  D == ht_user.D0
                  ix == HeatInvH2(Spacings(ht_info).hx)
                  iy == HeatInvH2(Spacings(ht_info).hy)
                  entries == {<<s.col[e], s.v[e]>> : e \in 1..s.ncols}
                  common == {<<<<j, i>>, RMul(RMul(RInt(-2), D), RAdd(ix, iy))>>,
                             <<<<j - 1, i>>, RMul(D, iy)>>,
                             <<<<j + 1, i>>, RMul(D, iy)>>}
              IN  /\ \A e \in 1..s.ncols : s.col[e][2] \in 0..(ht_info.mx - 1)
                  /\ (0 < i /\ i < ht_info.mx - 1) =>
                        /\ s.ncols = 5
                        /\ entries = common \cup {<<<<j, i - 1>>, RMul(D, ix)>>,
                                                  <<<<j, i + 1>>, RMul(D, ix)>>}
                  /\ i = 0 =>
                        /\ s.ncols = 4
                        /\ entries = common \cup
                               {<<<<j, i + 1>>, RMul(RMul(RInt(2), D), ix)>>}
                  /\ i = ht_info.mx - 1 =>
                        /\ s.ncols = 4
                        /\ entries = common \cup
                               {<<<<j, i - 1>>, RMul(RMul(RInt(2), D), ix)>>}

\* the same statement on grids with at least three rows in y
C22_ExactJacobianThreeRows == ht_info.my >= 3 => C22_ExactJacobian

\* the stencil shapes and values alone
C22_StencilShape ==
    HeatAssembled =>
        \A r \in HeatRanks : \A c \in DOMAIN ht_jlog[r] :
            ht_jlog[r][c] = StencilRow(ht_info, ht_user, ht_jlog[r][c].row[1],
                                       ht_jlog[r][c].row[2])

MSAccepted == ms_pc \in {"checked", "created", "solve", "done"}
MSInterior(n) == ~MSOnBoundary(n)

\* C23: minimal.c: once the switch of main has run, a run with (problem = tent
\* and exact_init), with (problem = catenoid and catenoid_c < 1) or with
\* (problem = catenoid and exact_init and q != -0.5) has failed with no DMDA
\* and no SNES created and no initial iterate formed; an initial iterate
\* formed by FormExactFromG occurs only with problem = catenoid, q = -0.5 and
\* catenoid_c >= 1, and is then g at every node; in every other accepted run
\* the initial iterate is formed by InitialState(ZEROS, g on the boundary)
\* and is zero at every interior node.
C23_SetupValidation ==
    /\ (/\ ms_pc # "start" /\ ms_pc # "parsed"
        /\ \/ ms_problem = TENT /\ ms_exact_init
           \/ ms_problem = CATENOID /\ RLt(ms_mctx.catenoid_c, RInt(1))
           \/ ms_problem = CATENOID /\ ms_exact_init /\ ms_mctx.q # R(-1, 2))
       => /\ ms_pc = "error"
          /\ ms_errcode \in {2, 3, 4}
          /\ ~ms_da.created
          /\ ~ms_snes
          /\ ms_init = "none"
    /\ ms_init = "FormExactFromG" =>
          /\ ms_problem = CATENOID
          /\ ms_mctx.q = R(-1, 2)
          /\ RGe(ms_mctx.catenoid_c, RInt(1))
          /\ ms_exact_init
          /\ ms_iter = 0 => \A n \in DOMAIN ms_u :
                ms_u[n] = <<"catenoid", ms_mctx.catenoid_c,
                            R(n[2], ms_da.mx - 1), R(n[1], ms_da.my - 1)>>
    /\ (/\ ms_pc \in {"solve", "done"}
        /\ ~(ms_problem = CATENOID /\ ms_mctx.q = R(-1, 2) /\ ms_exact_init))
       => /\ ms_init = "InitialState"
          /\ ms_iter = 0 => \A n \in DOMAIN ms_u :
                MSInterior(n) => ms_u[n] = MNum(RInt(0))
    /\ ms_pc \in {"solve", "done"} => ms_init # "none"

\* an accepted catenoid run started from the exact solution, and the three
\* kinds of rejected run
C23_Witness ==
    /\ ms_pc = "solve" /\ ms_init = "FormExactFromG" /\ ms_mctx.catenoid_c = RInt(1)
    /\ ms_da.mx = 3 /\ ms_da.my = 3

C23_WitnessRejected ==
    /\ ms_pc = "error" /\ ms_errcode = 4

MSEvaluated == ms_pc \in {"solve", "done"} /\ \A r \in MSRanks : ms_fdone[r]
MSGridNodes == HeatNodes(ms_da.mx, ms_da.my)
\* the boundary function at the grid node n
MSBoundaryValue(n) ==
    g_bdry(ms_user, ms_mctx, R(n[2], ms_da.mx - 1), R(n[1], ms_da.my - 1))
\* the offsets <<dj, di>> of the eight neighbours
MSOffsets ==
    [E |-> <<0, 1>>, W |-> <<0, -1>>, N |-> <<1, 0>>, S |-> <<-1, 0>>,
     NE |-> <<1, 1>>, NW |-> <<1, -1>>, SE |-> <<-1, 1>>, SW |-> <<-1, -1>>]
MSNeighbor(n, d) == <<n[1] + MSOffsets[d][1], n[2] + MSOffsets[d][2]>>
\* the iterate with every boundary entry replaced by the value v
MSBoundarySet(u, v) ==
    [n \in DOMAIN u |-> IF MSOnBoundary(n) THEN MNum(RInt(v)) ELSE u[n]]

\* C24: minimal.c FormFunctionLocal: once every rank has evaluated the
\* residual at an iterate u, the residual at a boundary node is u - g there;
\* at an interior node each of the eight neighbour values used is g at the
\* neighbour when the neighbour lies on the grid boundary and the array entry
\* otherwise; the interior residuals are the same for an array that differs
\* from u at boundary nodes only; and every index read lies in
\* [0,mx-1] x [0,my-1].
C24_BoundaryFromG ==
    MSEvaluated =>
        /\ \A n \in MSGridNodes : MSOnBoundary(n) =>
              ms_FF[n] = MSub(ms_u[n], MSBoundaryValue(n))
        /\ \A r \in MSRanks : \A n \in DOMAIN ms_flog[r].nbrs :
              MSInterior(n) =>
                 \A d \in DOMAIN MSOffsets :
                    ms_flog[r].nbrs[n][d] =
                        IF MSOnBoundary(MSNeighbor(n, d))
                        THEN MSBoundaryValue(MSNeighbor(n, d))
                        ELSE ms_u[MSNeighbor(n, d)]
        /\ \A v \in {5, 7} :
              \A other \in {MSFormFunctionLocal(MSWholeGrid, MSBoundarySet(ms_u, v),
                                                ms_FF, ms_user, ms_mctx).FF} :
                 \A n \in MSGridNodes : MSInterior(n) => other[n] = ms_FF[n]
        /\ \A r \in MSRanks : ms_flog[r].reads \subseteq MSGridNodes
        /\ \A r \in MSRanks :
              HeatOwned(MSInfoOf(r)) \subseteq ms_flog[r].reads

\* a 4 x 4 tent run on two ranks, evaluated at an iterate whose boundary
\* entries differ from g and whose interior entries are not all equal: the
\* four interior nodes take neighbours from the array and from g
C24_Witness ==
    /\ MSEvaluated
    /\ ms_da.mx = 4 /\ ms_da.my = 4 /\ Len(ms_ranges) = 2
    /\ ms_problem = TENT
    /\ ms_u[<<0, 0>>] = MNum(RInt(3))
    /\ ms_u[<<1, 1>>] = MNum(RInt(1)) /\ ms_u[<<2, 2>>] = MNum(RInt(0))
    /\ <<1, 1>> \in DOMAIN ms_flog[1].nbrs
    /\ ms_flog[1].nbrs[<<1, 1>>].NE = MNum(RInt(0))
    /\ ms_flog[1].nbrs[<<1, 1>>].W = MNum(R(2, 3))

\* the global indices rank r owns
ObsOwned(r) == obs_ranges[r][1]..(obs_ranges[r][1] + obs_ranges[r][2] - 1)
\* the nodes with u <= Xl + 1e-8 and F > 0
ObsActiveNodes ==
    {k \in DOMAIN obs_u :
        /\ obs_u[k][1] * obs_Xl[k][2] * 100000000
              <= (obs_Xl[k][1] * 100000000 + obs_Xl[k][2]) * obs_u[k][2]
        /\ obs_F[k][1] > 0}
ObsLocalActive(r) == Cardinality(ObsActiveNodes \cap ObsOwned(r))
RECURSIVE ObsSumLocal(_)
ObsSumLocal(r) == IF r = 0 THEN 0 ELSE ObsLocalActive(r) + ObsSumLocal(r - 1)
ObsArea(count) ==
    R(16 * count, (obs_info.mx - 1) * (obs_info.my - 1))

ObsReported ==
    obs_phase = "called" =>
        /\ \A k \in DOMAIN obs_u :
              Cardinality({r \in ObsRanks : k \in ObsOwned(r)}) = 1
        /\ \A r \in ObsRanks :
              /\ obs_rpc[r] \in {"reduced", "returned"} =>
                    /\ obs_gact[r] = ObsSumLocal(Len(obs_ranges))
                    /\ obs_gact[r] = Cardinality(ObsActiveNodes)
              /\ obs_rpc[r] # "returned" =>
                    obs_out[r] = [act |-> Unwritten, actarea |-> Unwritten]
              /\ obs_rpc[r] = "returned" =>
                    /\ obs_out[r].act =
                          IF obs_args.act THEN Cardinality(ObsActiveNodes)
                          ELSE Unwritten
                    /\ obs_out[r].actarea =
                          IF obs_args.actarea
                          THEN ObsArea(Cardinality(ObsActiveNodes))
                          ELSE Unwritten

ObsReadOnly ==
    obs_phase = "called" => UNCHANGED <<obs_u, obs_Xl, obs_F>>

\* C25: obstacle.c GetActiveSet: the count every rank holds after the
\* reduction is the sum over the ranks of the number of locally owned nodes
\* with u <= Xl + 1e-8 and F > 0, every node being owned by exactly one rank,
\* so it is the number of such nodes of the grid; *act is that count and
\* *actarea is dx*dy times it, each written only when its pointer is not
\* NULL; and no step of the call changes u, Xl or F.
C25_ActiveSet == []ObsReported /\ [][ObsReadOnly]_vars

\* a 3 x 2 grid on two ranks, both ranks returned with actarea written and
\* act NULL, three active nodes of which one sits exactly at the tolerance
\* on each rank
C25_Witness ==
    /\ obs_phase = "called"
    /\ obs_info = [mx |-> 3, my |-> 2]
    /\ Len(obs_ranges) = 2
    /\ \A r \in ObsRanks : obs_rpc[r] = "returned"
    /\ ~obs_args.act /\ obs_args.actarea
    /\ obs_lact = <<1, 2>>
    /\ obs_out[1] = [act |-> Unwritten, actarea |-> RInt(24)]
    /\ \E k \in DOMAIN obs_u : obs_u[k] = R(2, 100000000)
    /\ \E k \in DOMAIN obs_u : obs_F[k] = RInt(0)
====
